---- MODULE Spec2Model ----
(***************************************************************************)
(* A model of the uuencode package: the encoder and decoder transformers   *)
(* (uu.go), driven the way the tests and uuutil.Parse drive them, through  *)
(* a transform.Reader over an in-memory byte source, and the multi-section *)
(* decoder with its consumer, its cancel function and Close.               *)
(*                                                                         *)
(* Bytes are the integers 0..255, byte strings are sequences of them.      *)
(* Offsets (nSrc, nDst) are Go's 0-based offsets: src[nSrc] is the TLA+    *)
(* element src[nSrc + 1].                                                  *)
(***************************************************************************)
EXTENDS Integers, Sequences, FiniteSets, TLC

VARIABLES
    payload,   \* SpecCodec: the bytes given to the encoder
    enc,       \* the Encode value: state, permit, name, useGrave, eol
    encRd,     \* the transform.Reader driving the encoder
    encOut,    \* what ReadAll has collected from the encoder
    phase,     \* SpecCodec: "enc", "dec"; Spec: "multi"
    input,     \* the byte stream given to the decoder's reader
    parts,     \* how input was built: sections (payloads) and other lines
    d,         \* the Decode value
    rd,        \* the transform.Reader driving the decoder
    drvOut,    \* what ReadAll (io.Copy) has collected from the decoder
    drv,       \* the driving goroutine: its place in Reader.Read / Transform
    pipes,     \* every io.Pipe created so far, by section number
    chClosed,  \* whether the channel of section handles is closed
    cons,      \* the consumer goroutine
    cncl,      \* the cancel function: signal channel, callers' places;
               \* SpecParse: the caller of Parse as well
    hist       \* history kept for the properties (not read by the program)

vars == <<payload, enc, encRd, encOut, phase, input, parts, d, rd, drvOut,
          drv, pipes, chClosed, cons, cncl, hist>>

-----------------------------------------------------------------------------
(* Bounds of the model *)

\* size of transform.Reader's src and dst buffers (4096 in x/text/transform)
BufSize == 72
\* size of the buffer the consumer hands to Read on a section handle
ReadBuf == 40
\* how many times the cancel function may be called
MaxCancelCalls == 2

-----------------------------------------------------------------------------
(* Program constants (uu.go, const blocks) *)

uuOffset == 32
uuPadding == 96
maxSingleLine == 45
maxEncLine == 61
maxMarker == 77
maxUuDecLine == 64
uuStart == 0
uuBody == 1
uuEnd == 2
LF == 10
CR == 13
SP == 32

uuBeginMarker == <<98, 101, 103, 105, 110>>
uuEndMarker == <<101, 110, 100>>
DefaultPermit == <<54, 52, 52>>
DefaultName == <<102, 105, 108, 101, 110, 97, 109, 101>>

-----------------------------------------------------------------------------
(* Go's byte operators *)

RECURSIVE BitAnd(_, _)
BitAnd(a, b) ==
    IF a = 0 \/ b = 0 THEN 0
    ELSE (a % 2) * (b % 2) + 2 * BitAnd(a \div 2, b \div 2)

RECURSIVE BitOr(_, _)
BitOr(a, b) ==
    IF a = 0 THEN b
    ELSE IF b = 0 THEN a
    ELSE (IF a % 2 = 1 \/ b % 2 = 1 THEN 1 ELSE 0)
         + 2 * BitOr(a \div 2, b \div 2)

Pow2(k) == CASE k = 0 -> 1 [] k = 2 -> 4 [] k = 4 -> 16 [] k = 6 -> 64

\* x << k and x >> k on a byte
Shl(x, k) == (x * Pow2(k)) % 256
Shr(x, k) == x \div Pow2(k)
ByteAdd(x, y) == (x + y) % 256
ByteSub(x, y) == (x - y + 256) % 256

Min(a, b) == IF a < b THEN a ELSE b

\* s[from:] and s[from:to] with Go's 0-based offsets
From(s, from) == SubSeq(s, from + 1, Len(s))
Slice(s, from, to) == SubSeq(s, from + 1, to)

\* bytes.HasPrefix
HasPrefix(s, p) == Len(s) >= Len(p) /\ SubSeq(s, 1, Len(p)) = p

\* strings.Index(string(s[from:]), "\n"): the offset relative to from, or -1
IndexLF(s, from) ==
    LET hits == {i \in (from + 1)..Len(s) : s[i] = LF}
    IN  IF hits = {} THEN -1
        ELSE (CHOOSE i \in hits : \A j \in hits : i <= j) - from - 1

-----------------------------------------------------------------------------
(* Encoder: miniEncode, lineEncode, uuBodyEnc.Transform, Encode.Transform *)

\* the useGrave loop of miniEncode
GraveOf(c, useGrave) == IF useGrave /\ c = uuOffset THEN uuPadding ELSE c

\* miniEncode with the second byte dropped as soon as there is padding
miniEncodeDropSecond(src, i, n, useGrave) ==
    LET s0 == src[i + 1]
        secondp1 == IF n < 1 THEN Shr(BitAnd(src[i + 2], 240), 4) ELSE 0
        secondp2 == IF n < 1 THEN Shl(BitAnd(src[i + 2], 15), 2) ELSE 0
        thirdp1 == IF n < 1 THEN Shr(BitAnd(src[i + 3], 192), 6) ELSE 0
        thirdlast == IF n < 1 THEN BitAnd(src[i + 3], 63) ELSE 0
        d0 == ByteAdd(Shr(BitAnd(s0, 252), 2), uuOffset)
        d1 == ByteAdd(BitOr(Shl(BitAnd(s0, 3), 4), secondp1), uuOffset)
        d2 == ByteAdd(BitOr(secondp2, thirdp1), uuOffset)
        d3 == ByteAdd(thirdlast, uuOffset)
    IN  <<GraveOf(d0, useGrave), GraveOf(d1, useGrave),
          GraveOf(d2, useGrave), GraveOf(d3, useGrave)>>

\* miniEncode on src[i:], n padding bytes: the four characters written
miniEncode(src, i, n, useGrave) ==
    LET s0 == src[i + 1]
        secondp1 == IF n < 2 THEN Shr(BitAnd(src[i + 2], 240), 4) ELSE 0
        secondp2 == IF n < 2 THEN Shl(BitAnd(src[i + 2], 15), 2) ELSE 0
        thirdp1 == IF n < 1 THEN Shr(BitAnd(src[i + 3], 192), 6) ELSE 0
        thirdlast == IF n < 1 THEN BitAnd(src[i + 3], 63) ELSE 0
        d0 == ByteAdd(Shr(BitAnd(s0, 252), 2), uuOffset)
        d1 == ByteAdd(BitOr(Shl(BitAnd(s0, 3), 4), secondp1), uuOffset)
        d2 == ByteAdd(BitOr(secondp2, thirdp1), uuOffset)
        d3 == ByteAdd(thirdlast, uuOffset)
    IN  <<GraveOf(d0, useGrave), GraveOf(d1, useGrave),
          GraveOf(d2, useGrave), GraveOf(d3, useGrave)>>

RECURSIVE lineEncodeFull(_, _, _, _)
lineEncodeFull(src, i, n, useGrave) ==
    IF i >= n THEN <<>>
    ELSE miniEncode(src, i, 0, useGrave) \o lineEncodeFull(src, i + 3, n, useGrave)

\* lineEncode(dst, src[start:], n, useGrave): the characters written to dst
lineEncode(src, start, n, useGrave) ==
    LET r == n % 3
        full == n - r
    IN  lineEncodeFull(src, start, start + full, useGrave)
        \o (IF r > 0 THEN miniEncode(src, start + full, 3 - r, useGrave)
            ELSE <<>>)

Ret(nDst, nSrc, err, out) == [nDst |-> nDst, nSrc |-> nSrc, err |-> err, out |-> out]

\* endline without its last end of line
EndLineOpen(eol) == eol \o <<uuPadding>> \o eol \o uuEndMarker

\* endline of uuBodyEnc.Transform
EndLine(eol) == eol \o <<uuPadding>> \o eol \o uuEndMarker \o eol

\* uuBodyEncTail that writes the last line and the trailer whatever atEOF is
uuBodyEncTailAlways(dstCap, src, atEOF, useGrave, eol, nDst, nSrc, out) ==
    LET endline == EndLine(eol)
        srclen == Len(src) - nSrc
        expectedLen == ((srclen \div 3) + (IF srclen % 3 > 0 THEN 1 ELSE 0)) * 4 + 1
    IN  IF dstCap - nDst < expectedLen + Len(endline)
        THEN Ret(nDst, nSrc, "ErrShortDst", out)
        ELSE Ret(nDst + expectedLen + Len(endline), nSrc + srclen, "nil",
                 out \o <<ByteAdd(srclen, uuOffset)>>
                     \o lineEncode(src, nSrc, srclen, useGrave) \o endline)

\* the atEOF branch of uuBodyEnc.Transform
uuBodyEncTail(dstCap, src, atEOF, useGrave, eol, nDst, nSrc, out) ==
    IF atEOF THEN
        LET endline == EndLine(eol)
            srclen == Len(src) - nSrc
            expectedLen == ((srclen \div 3) + (IF srclen % 3 > 0 THEN 1 ELSE 0)) * 4 + 1
        IN  IF dstCap - nDst < expectedLen + Len(endline)
            THEN Ret(nDst, nSrc, "ErrShortDst", out)
            ELSE Ret(nDst + expectedLen + Len(endline), nSrc + srclen, "nil",
                     out \o <<ByteAdd(srclen, uuOffset)>>
                         \o lineEncode(src, nSrc, srclen, useGrave) \o endline)
    ELSE Ret(nDst, nSrc, "ErrShortSrc", out)

RECURSIVE uuBodyEncLoop(_, _, _, _, _, _, _, _)
uuBodyEncLoop(dstCap, src, atEOF, useGrave, eol, nDst, nSrc, out) ==
    IF nSrc + maxSingleLine <= Len(src) THEN
        IF dstCap - nDst < maxEncLine + Len(eol)
        THEN Ret(nDst, nSrc, "ErrShortDst", out)
        ELSE uuBodyEncLoop(dstCap, src, atEOF, useGrave, eol,
                 nDst + maxEncLine + Len(eol), nSrc + maxSingleLine,
                 out \o <<maxMarker>>
                     \o lineEncode(src, nSrc, maxSingleLine, useGrave) \o eol)
    ELSE uuBodyEncTail(dstCap, src, atEOF, useGrave, eol, nDst, nSrc, out)

\* uuBodyEnc.Transform(dst, src, atEOF) with len(dst) = dstCap
uuBodyEncTransform(dstCap, src, atEOF, useGrave, eol) ==
    uuBodyEncLoop(dstCap, src, atEOF, useGrave, eol, 0, 0, <<>>)

\* NewEncode(useGrave, eol, option...)
NewEncode(useGrave, eol, option) ==
    [state |-> uuStart,
     permit |-> IF Len(option) > 1 THEN option[2] ELSE DefaultPermit,
     name |-> IF Len(option) > 0 THEN option[1] ELSE DefaultName,
     useGrave |-> useGrave, eol |-> eol]

\* Encode.Transform that stays in state start when the body had no room
EncodeTransformRestart(e, dstCap, src, atEOF) ==
    IF e.state = uuStart THEN
        LET startline == uuBeginMarker \o <<SP>> \o e.permit \o <<SP>> \o e.name \o e.eol
        IN  IF Len(startline) > dstCap
            THEN [nDst |-> 0, nSrc |-> 0, err |-> "ErrShortDst", out |-> <<>>,
                  state |-> uuStart]
            ELSE LET b == uuBodyEncTransform(dstCap - Len(startline), src, atEOF,
                                             e.useGrave, e.eol)
                 IN  [nDst |-> Len(startline) + b.nDst, nSrc |-> b.nSrc,
                      err |-> b.err, out |-> startline \o b.out,
                      state |-> IF b.err = "ErrShortDst" THEN uuStart ELSE uuBody]
    ELSE LET b == uuBodyEncTransform(dstCap, src, atEOF, e.useGrave, e.eol)
         IN  [nDst |-> b.nDst, nSrc |-> b.nSrc, err |-> b.err, out |-> b.out,
              state |-> e.state]

\* Encode.Transform: the result, with the encoder's new state in field state
EncodeTransform(e, dstCap, src, atEOF) ==
    IF e.state = uuStart THEN
        LET startline == uuBeginMarker \o <<SP>> \o e.permit \o <<SP>> \o e.name \o e.eol
        IN  IF Len(startline) > dstCap
            THEN [nDst |-> 0, nSrc |-> 0, err |-> "ErrShortDst", out |-> <<>>,
                  state |-> uuStart]
            ELSE LET b == uuBodyEncTransform(dstCap - Len(startline), src, atEOF,
                                             e.useGrave, e.eol)
                 IN  [nDst |-> Len(startline) + b.nDst, nSrc |-> b.nSrc,
                      err |-> b.err, out |-> startline \o b.out, state |-> uuBody]
    ELSE LET b == uuBodyEncTransform(dstCap, src, atEOF, e.useGrave, e.eol)
         IN  [nDst |-> b.nDst, nSrc |-> b.nSrc, err |-> b.err, out |-> b.out,
              state |-> e.state]

-----------------------------------------------------------------------------
(* Body decoder: getOffset, miniConvert, uuBodyDec.Transform *)

getOffset(c) == IF c /= uuPadding THEN ByteSub(c, uuOffset) ELSE 0

\* miniQuantum that keeps two bits of the third character only
miniQuantumNarrow(in, i) ==
    LET g0 == getOffset(in[i + 1])
        g1 == getOffset(in[i + 2])
        g2 == getOffset(in[i + 3])
        g3 == getOffset(in[i + 4])
    IN  <<BitOr(Shl(g0, 2), Shr(BitAnd(48, g1), 4)),
          BitOr(Shl(g1, 4), Shr(BitAnd(12, g2), 2)),
          BitOr(Shl(g2, 6), BitAnd(63, g3))>>

\* one quantum of miniConvert: in[i..i+3] to three bytes
miniQuantum(in, i) ==
    LET g0 == getOffset(in[i + 1])
        g1 == getOffset(in[i + 2])
        g2 == getOffset(in[i + 3])
        g3 == getOffset(in[i + 4])
    IN  <<BitOr(Shl(g0, 2), Shr(BitAnd(48, g1), 4)),
          BitOr(Shl(g1, 4), Shr(BitAnd(60, g2), 2)),
          BitOr(Shl(g2, 6), BitAnd(63, g3))>>

RECURSIVE miniConvertFrom(_, _)
miniConvertFrom(in, i) ==
    IF i >= Len(in) THEN <<>>
    ELSE miniQuantum(in, i) \o miniConvertFrom(in, i + 4)

\* miniConvert(out, in): the bytes written to out (len(in) is a multiple of 4)
miniConvert(in) == miniConvertFrom(in, 0)

\* b with a trailing '\r' removed (b[linelen-1] == '\r'), b not empty
StripCR(b) == IF b[Len(b)] = CR THEN SubSeq(b, 1, Len(b) - 1) ELSE b

\* uuBodyDecTrailer that consumes the padding line while the line after it
\* is incomplete
uuBodyDecTrailerEager(src, atEOF, nDst, nSrc, m, out) ==
    LET endlen == nSrc + m + 1
        m2 == IndexLF(src, endlen)
    IN  IF m2 < 0 THEN
            IF atEOF /\ From(src, endlen) = uuEndMarker
            THEN Ret(nDst, Len(src), "errFoundEOF", out)
            ELSE Ret(nDst, endlen, "ErrShortSrc", out)
        ELSE IF m2 = 0 THEN Ret(nDst, nSrc, "panic", out)
        ELSE IF StripCR(Slice(src, endlen, endlen + m2)) = uuEndMarker
             THEN Ret(nDst, endlen + m2 + 1, "errFoundEOF", out)
             ELSE Ret(nDst, endlen + m2 + 1, "ErrBadUUDec", out)

\* the trailer branch of uuBodyDec.Transform: line b at nSrc starts with '`'
uuBodyDecTrailer(src, atEOF, nDst, nSrc, m, out) ==
    LET endlen == nSrc + m + 1
        m2 == IndexLF(src, endlen)
    IN  IF m2 < 0 THEN
            IF atEOF /\ From(src, endlen) = uuEndMarker
            THEN Ret(nDst, Len(src), "errFoundEOF", out)
            ELSE Ret(nDst, nSrc, "ErrShortSrc", out)
        ELSE IF m2 = 0 THEN Ret(nDst, nSrc, "panic", out)  \* b[linelen-1], linelen = 0
        ELSE IF StripCR(Slice(src, endlen, endlen + m2)) = uuEndMarker
             THEN Ret(nDst, endlen + m2 + 1, "errFoundEOF", out)
             ELSE Ret(nDst, endlen + m2 + 1, "ErrBadUUDec", out)

\* UnterminatedErr that always asks for more source
UnterminatedErrShortSrc(n) == "ErrShortSrc"

\* the return for n bytes of src left without a '\n' (lines 306-311)
UnterminatedErr(n) == IF n > maxUuDecLine THEN "ErrBadLen" ELSE "ErrShortSrc"

\* LenByteBad without the upper limit
LenByteBadLowOnly(c) == c < uuOffset

\* the test of the length byte b[0] (line 336)
LenByteBad(c) == c < uuOffset \/ c > uuPadding

\* PaddingBad without the limit of two padding bytes
PaddingBadNoLimit(tmp, realTotal) == tmp < realTotal

\* the test of the decoded count tmp against the declared count (lines 351-359)
PaddingBad(tmp, realTotal) == tmp < realTotal \/ tmp - realTotal > 2

RECURSIVE uuBodyDecLoop(_, _, _, _, _, _)
uuBodyDecLoop(dstCap, src, atEOF, nDst, nSrc, out) ==
    IF nSrc >= Len(src) THEN Ret(nDst, nSrc, "nil", out)
    ELSE
    LET m == IndexLF(src, nSrc) IN
    IF m < 0 THEN Ret(nDst, nSrc, UnterminatedErr(Len(src) - nSrc), out)
    ELSE IF m = 0 THEN Ret(nDst, nSrc, "panic", out)    \* b[0] of an empty line
    ELSE
    LET b0 == Slice(src, nSrc, nSrc + m) IN
    IF b0[1] = uuPadding THEN uuBodyDecTrailer(src, atEOF, nDst, nSrc, m, out)
    ELSE IF LenByteBad(b0[1]) THEN Ret(nDst, nSrc, "ErrBadUUDec", out)
    ELSE
    LET b == StripCR(b0)
        linelen == Len(b) - 1
        tmp == (linelen \div 4) * 3
        realTotal == ByteSub(b[1], uuOffset)
    IN  IF linelen % 4 /= 0 THEN Ret(nDst, nSrc, "ErrBadUUDec", out)
        ELSE IF tmp > dstCap THEN Ret(nDst, nSrc, "ErrShortDst", out)
        ELSE IF PaddingBad(tmp, realTotal) THEN Ret(nDst, nSrc, "ErrBadUUDec", out)
        \* miniConvert(dst[nDst:], b) writes tmp bytes at nDst: out of range
        \* when fewer than tmp bytes are left in dst
        ELSE IF nDst + tmp > dstCap THEN Ret(nDst, nSrc + m + 1, "panic", out)
        ELSE uuBodyDecLoop(dstCap, src, atEOF, nDst + realTotal, nSrc + m + 1,
                 out \o SubSeq(miniConvert(From(b, 1)), 1, realTotal))

\* uuBodyDec.Transform(dst, src, atEOF) with len(dst) = dstCap
uuBodyDecTransform(dstCap, src, atEOF) ==
    uuBodyDecLoop(dstCap, src, atEOF, 0, 0, <<>>)

-----------------------------------------------------------------------------
(* Header line: strings.Split, strconv.Atoi, the uuStart case of             *)
(* Decode.Transform                                                          *)

\* the offset of the first sep at or after from, or Len(s) when there is none
NextSep(s, from, sep) ==
    LET hits == {i \in (from + 1)..Len(s) : s[i] = sep}
    IN  IF hits = {} THEN Len(s)
        ELSE (CHOOSE i \in hits : \A j \in hits : i <= j) - 1

RECURSIVE SplitFrom(_, _, _)
SplitFrom(s, from, sep) ==
    LET e == NextSep(s, from, sep)
    IN  IF e = Len(s) THEN <<Slice(s, from, e)>>
        ELSE <<Slice(s, from, e)>> \o SplitFrom(s, e + 1, sep)

\* strings.Split(s, " ")
Split(s, sep) == SplitFrom(s, 0, sep)

IsDigit(c) == c >= 48 /\ c <= 57

\* digit strings compared as numbers of the same length
RECURSIVE DigitsLeq(_, _, _)
DigitsLeq(a, b, i) ==
    IF i > Len(a) THEN TRUE
    ELSE IF a[i] < b[i] THEN TRUE
    ELSE IF a[i] > b[i] THEN FALSE
    ELSE DigitsLeq(a, b, i + 1)

\* 2^63 - 1 and 2^63 in decimal digits
MaxInt64Digits == <<57,50,50,51,51,55,50,48,51,54,56,53,52,55,55,53,56,48,55>>
MinInt64Digits == <<57,50,50,51,51,55,50,48,51,54,56,53,52,55,55,53,56,48,56>>

RECURSIVE StripZeros(_)
StripZeros(s) == IF Len(s) > 1 /\ s[1] = 48 THEN StripZeros(Tail(s)) ELSE s

\* whether strconv.Atoi(s) returns a nil error
AtoiOk(s) ==
    LET signed == Len(s) > 0 /\ (s[1] = 43 \/ s[1] = 45)
        neg == Len(s) > 0 /\ s[1] = 45
        digits == IF signed THEN Tail(s) ELSE s
        sig == StripZeros(digits)
    IN  /\ Len(digits) > 0
        /\ \A i \in 1..Len(digits) : IsDigit(digits[i])
        /\ \/ Len(sig) < 19
           \/ Len(sig) = 19
              /\ DigitsLeq(sig, IF neg THEN MinInt64Digits ELSE MaxInt64Digits, 1)

\* the header line begin (without its '\n') parsed into d.Filename, d.Permission
ParseHeader(dd, line) ==
    LET begin == StripCR(line)
        as == Split(begin, SP)
    IN  [dd EXCEPT !.Filename = IF Len(as) > 2 THEN as[3] ELSE @,
                   !.Permission = IF Len(as) > 1 /\ AtoiOk(as[2]) THEN as[2] ELSE @,
                   !.state = uuBody]

\* ScanHeader with the lines before the header dropped instead of copied
RECURSIVE ScanHeaderDiscard(_, _, _, _, _, _)
ScanHeaderDiscard(dd, dstCap, src, nDst, nSrc, out) ==
    LET m == IndexLF(src, nSrc) IN
    IF m < 0 THEN [kind |-> "none", nDst |-> nDst, nSrc |-> nSrc, out |-> out, d |-> dd]
    ELSE
    LET begin == Slice(src, nSrc, nSrc + m) IN
    IF ~HasPrefix(begin, uuBeginMarker)
    THEN ScanHeaderDiscard(dd, dstCap, src, nDst, nSrc + m + 1, out)
    ELSE [kind |-> "found", nDst |-> nDst, nSrc |-> nSrc + m + 1, out |-> out,
          d |-> ParseHeader(dd, begin)]

\* the for loop of the uuStart case from offsets nDst, nSrc: lines that do not
\* start with "begin" are copied to dst. kind is "found" (header parsed, d
\* updated), "shortdst" (the return of line 146) or "none" (loop ran out).
RECURSIVE ScanHeader(_, _, _, _, _, _)
ScanHeader(dd, dstCap, src, nDst, nSrc, out) ==
    LET m == IndexLF(src, nSrc) IN
    IF m < 0 THEN [kind |-> "none", nDst |-> nDst, nSrc |-> nSrc, out |-> out, d |-> dd]
    ELSE
    LET begin == Slice(src, nSrc, nSrc + m) IN
    IF ~HasPrefix(begin, uuBeginMarker) THEN
        IF dstCap - nDst < m + 1
        THEN [kind |-> "shortdst", nDst |-> nDst, nSrc |-> nSrc, out |-> out, d |-> dd]
        ELSE ScanHeader(dd, dstCap, src, nDst + m + 1, nSrc + m + 1,
                        out \o Slice(src, nSrc, nSrc + m + 1))
    ELSE [kind |-> "found", nDst |-> nDst, nSrc |-> nSrc + m + 1, out |-> out,
          d |-> ParseHeader(dd, begin)]

\* the return taken when the loop ran out without a header (lines 172-181)
NoHeaderErr(src, nSrc) ==
    IF nSrc /= 0 THEN "ErrShortSrc"
    ELSE IF ~HasPrefix(From(src, nSrc), uuBeginMarker) THEN "ErrBadUUDec"
    ELSE "ErrBadLen"

\* a Transform result together with the decoder after the call
DRet(nDst, nSrc, err, out, dd) ==
    [nDst |-> nDst, nSrc |-> nSrc, err |-> err, out |-> out, d |-> dd]

\* DecodeTail that consumes the rest of src and writes none of it
DecodeTailDrop(dd, dstCap, src, nDst, nSrc, out) ==
    DRet(nDst, Len(src), "nil", out, dd)

\* the default case of Decode.Transform: the rest of src copied to dst
DecodeTail(dd, dstCap, src, nDst, nSrc, out) ==
    LET n == Min(dstCap - nDst, Len(src) - nSrc)
    IN  DRet(nDst + n, nSrc + n,
             IF Len(src) - nSrc > dstCap - nDst THEN "ErrShortDst" ELSE "nil",
             out \o Slice(src, nSrc, nSrc + n), dd)

\* the uuBody case of Decode.Transform for a single-section decoder
DecodeBodySingle(dd, dstCap, src, atEOF, nDst, nSrc, out) ==
    LET b == uuBodyDecTransform(dstCap - nDst, From(src, nSrc), atEOF)
    IN  IF b.err /= "errFoundEOF"
        THEN DRet(nDst + b.nDst, nSrc + b.nSrc, b.err, out \o b.out, dd)
        ELSE DecodeTail([dd EXCEPT !.state = uuEnd], dstCap, src,
                        nDst + b.nDst, nSrc + b.nSrc, out \o b.out)

\* EmptySrcErr that takes uuEnd for the only good ending
EmptySrcErrEndOnly(dd) == IF dd.state = uuEnd THEN "nil" ELSE "ErrBadUUDec"

\* the return of Decode.Transform on an empty source window (lines 127-132)
EmptySrcErr(dd) ==
    IF dd.state = uuEnd \/ (dd.multi /\ dd.state = uuStart) THEN "nil"
    ELSE "ErrBadUUDec"

\* Decode.Transform(dst, src, atEOF) of a decoder made by NewDecode
DecodeTransformSingle(dd, dstCap, src, atEOF) ==
    IF Len(src) = 0 THEN DRet(0, 0, EmptySrcErr(dd), <<>>, dd)
    ELSE IF dd.state = uuStart THEN
        LET h == ScanHeader(dd, dstCap, src, 0, 0, <<>>)
        IN  IF h.kind = "shortdst" THEN DRet(h.nDst, h.nSrc, "ErrShortDst", h.out, dd)
            ELSE IF h.kind = "none"
            THEN DRet(h.nDst, h.nSrc, NoHeaderErr(src, h.nSrc), h.out, dd)
            ELSE DecodeBodySingle(h.d, dstCap, src, atEOF, h.nDst, h.nSrc, h.out)
    ELSE IF dd.state = uuBody THEN DecodeBodySingle(dd, dstCap, src, atEOF, 0, 0, <<>>)
    ELSE DecodeTail(dd, dstCap, src, 0, 0, <<>>)

\* NewDecode() and the Decode of NewMultiDecode()
NewDecode == [multi |-> FALSE, multiErr |-> "nil", state |-> uuStart,
              Filename |-> <<>>, Permission |-> <<>>, pipe |-> 0]
NewMultiDecodeD == [NewDecode EXCEPT !.multi = TRUE]

-----------------------------------------------------------------------------
(* The driver: ioutil.ReadAll(transform.NewReader(bytes.NewBuffer(b), t)).     *)
(* A reader is [pos, win, err, next]: pos bytes taken from the byte source,    *)
(* win = r.src[r.src0:r.src1], err = r.err, and next the place in Reader.Read: *)
(* "read" (fill src), "call" (call Transform) or "done" (Read returned r.err). *)

NewReader == [pos |-> 0, win |-> <<>>, err |-> "nil", next |-> "read"]

\* n, r.err = r.r.Read(r.src[r.src1:]) on a bytes.Buffer holding stream
RdRefill(r, stream) ==
    LET n == Min(BufSize - Len(r.win), Len(stream) - r.pos)
        err == IF r.pos >= Len(stream) /\ BufSize - Len(r.win) > 0 THEN "EOF" ELSE "nil"
        win == r.win \o Slice(stream, r.pos, r.pos + n)
    IN  [pos |-> r.pos + n, win |-> win, err |-> err,
         next |-> IF win /= <<>> \/ err /= "nil" THEN "call" ELSE "read"]

\* the switch of Reader.Read after Transform returned (nDst, nSrc, err)
RdAfter(r, nDst, nSrc, err) ==
    LET win == From(r.win, nSrc) IN
    IF err = "nil" THEN
        LET e == IF win /= <<>> THEN "errInconsistentByteCount" ELSE r.err
        IN  [r EXCEPT !.win = win, !.err = e,
                      !.next = IF e /= "nil" THEN "done" ELSE "read"]
    ELSE IF err = "ErrShortDst" /\ (nDst /= 0 \/ nSrc /= 0) THEN
        [r EXCEPT !.win = win,
                  !.next = IF win /= <<>> \/ r.err /= "nil" THEN "call" ELSE "read"]
    ELSE IF err = "ErrShortSrc" /\ Len(win) /= BufSize /\ r.err = "nil" THEN
        [r EXCEPT !.win = win, !.next = "read"]
    ELSE [r EXCEPT !.win = win, !.next = "done",
                   !.err = IF r.err \in {"nil", "EOF"} THEN err ELSE r.err]

\* the error ioutil.ReadAll returns once the reader is done
ReadAllErr(r) == IF r.err = "EOF" THEN "nil" ELSE r.err

-----------------------------------------------------------------------------
(* SpecCodec: a payload is encoded through a reader, and the text produced is  *)
(* decoded through a reader by a single-section decoder.                       *)

\* payload lengths and byte patterns (uu_test.go fills with i+1, i*9, i*7)
MaxPayload == 91
PayloadLens == {0, 1, 2, 3, 44, 45, 46, 90, MaxPayload}
Pattern(k, len) ==
    [i \in 1..len |-> CASE k = 0 -> 0
                        [] k = 1 -> i % 256
                        [] k = 2 -> ((i - 1) * 7) % 256
                        [] k = 3 -> 255
                        [] k = 4 -> (32 + 37 * i) % 256]
Patterns == 0..4
Eols == {<<LF>>, <<CR, LF>>}

NoDrv == [pc |-> "reader", nDst |-> 0, nSrc |-> 0, out |-> <<>>, wbuf |-> <<>>,
          berr |-> "nil"]
NoCons == [pc |-> "recv", cur |-> 0, got |-> <<>>, ends |-> <<>>]
NoCncl == [closed |-> FALSE, calls |-> 0, pc |-> "idle", panic |-> FALSE]
NoHist == [pubs |-> <<>>, cancelAtWrite |-> FALSE, pubAfterCancel |-> FALSE,
           consAfterCancel |-> FALSE, early |-> FALSE, wfail |-> FALSE,
           closeCalls |-> 0, resets |-> 0, fresh |-> NewDecode]

InitCodec ==
    /\ \E len \in PayloadLens, k \in Patterns : payload = Pattern(k, len)
    /\ \E g \in BOOLEAN, eol \in Eols : enc = NewEncode(g, eol, <<>>)
    /\ encRd = NewReader
    /\ encOut = <<>>
    /\ phase = "enc"
    /\ input = <<>>
    /\ parts = <<>>
    /\ d = NewDecode
    /\ rd = NewReader
    /\ drvOut = <<>>
    /\ drv = NoDrv
    /\ pipes = <<>>
    /\ chClosed = FALSE
    /\ cons = NoCons
    /\ cncl = NoCncl
    /\ hist = NoHist

decVars == <<input, parts, d, rd, drvOut, drv, pipes, chClosed, cons, cncl, hist>>
encVars == <<payload, enc, encRd, encOut>>

\* Reader.Read on the encoder's reader: fill src from the payload
EncRead ==
    /\ phase = "enc"
    /\ encRd.next = "read"
    /\ encRd' = RdRefill(encRd, payload)
    /\ UNCHANGED <<payload, enc, encOut, phase>>
    /\ UNCHANGED decVars

\* Reader.Read on the encoder's reader: one call of Encode.Transform
EncCall ==
    /\ phase = "enc"
    /\ encRd.next = "call"
    /\ LET res == EncodeTransform(enc, BufSize, encRd.win, encRd.err = "EOF")
       IN  /\ enc' = [enc EXCEPT !.state = res.state]
           /\ encOut' = encOut \o res.out
           /\ encRd' = RdAfter(encRd, res.nDst, res.nSrc, res.err)
    /\ UNCHANGED <<payload, phase>>
    /\ UNCHANGED decVars

\* ReadAll returned: the text is handed to the decoder's reader
EncDone ==
    /\ phase = "enc"
    /\ encRd.next = "done"
    /\ phase' = "dec"
    /\ input' = encOut
    /\ UNCHANGED encVars
    /\ UNCHANGED <<parts, d, rd, drvOut, drv, pipes, chClosed, cons, cncl, hist>>

\* Reader.Read on the decoder's reader: fill src from the stream
DrvRead ==
    /\ phase \in {"dec", "multi"}
    /\ drv.pc = "reader"
    /\ rd.next = "read"
    /\ rd' = RdRefill(rd, input)
    /\ UNCHANGED <<input, parts, d, drvOut, drv, pipes, chClosed, cons, cncl, hist>>
    /\ UNCHANGED <<phase>>
    /\ UNCHANGED encVars

\* Reader.Read on the decoder's reader: one call of Decode.Transform, single mode
DrvCallSingle ==
    /\ phase \in {"dec", "multi"}
    /\ drv.pc = "reader"
    /\ rd.next = "call"
    /\ ~d.multi
    /\ LET res == DecodeTransformSingle(d, BufSize, rd.win, rd.err = "EOF")
       IN  /\ d' = res.d
           /\ drvOut' = drvOut \o res.out
           /\ rd' = RdAfter(rd, res.nDst, res.nSrc, res.err)
    /\ UNCHANGED <<input, parts, drv, pipes, chClosed, cons, cncl, hist>>
    /\ UNCHANGED <<phase>>
    /\ UNCHANGED encVars

NextCodec == EncRead \/ EncCall \/ EncDone \/ DrvRead \/ DrvCallSingle

SpecCodec == InitCodec /\ [][NextCodec]_vars

-----------------------------------------------------------------------------
(* io.Pipe as Decode uses it. A pipe is [werr, rerr]: the errors the write   *)
(* and the read side were closed with ("nil": open). A Write blocks until a  *)
(* reader has taken all its bytes or a side is closed; a Read blocks until a *)
(* Write offers bytes or a side is closed.                                   *)

NewPipe == [werr |-> "nil", rerr |-> "nil"]

PipeClosed(p) == p.werr /= "nil" \/ p.rerr /= "nil"

\* PipeWriter.CloseWithError(err) / PipeWriter.Close() with err = "EOF"
CloseW(p, err) == IF p.werr = "nil" THEN [p EXCEPT !.werr = err] ELSE p

\* PipeReader.CloseWithError(err) / PipeReader.Close() with err = "ErrClosedPipe"
CloseR(p, err) == IF p.rerr = "nil" THEN [p EXCEPT !.rerr = err] ELSE p

\* the errors a Write on a closed pipe may return: the reader's close error
\* when only the read side is closed, io.ErrClosedPipe when the write side
\* is; with both closed, a Write that was blocked returns either, by the
\* order in which it wakes and by the library's version
WriteErrs(p) ==
    IF p.werr = "nil" THEN {p.rerr}
    ELSE IF p.rerr = "nil" THEN {"ErrClosedPipe"}
    ELSE {"ErrClosedPipe", p.rerr}

\* the errors a Read on a closed pipe may return, likewise
ReadErrs(p) ==
    IF p.rerr = "nil" THEN {p.werr}
    ELSE IF p.werr = "nil" THEN {"ErrClosedPipe"}
    ELSE {"ErrClosedPipe", p.werr}

\* Decode.closePipe: both ends of the current pipe closed with ErrUuCancel
closePipe(ps, dd) ==
    IF dd.pipe = 0 THEN ps
    ELSE [ps EXCEPT ![dd.pipe] = CloseR(CloseW(@, "ErrUuCancel"), "ErrUuCancel")]

-----------------------------------------------------------------------------
(* Decode.Transform of a multi-section decoder, cut where it blocks: at the  *)
(* select that publishes a handle and in pipeW.Write. Each operator runs the *)
(* code from one place to the next block or return and yields an outcome:    *)
(* ret = "none" and pc the place it blocks at, or ret the error returned.    *)

Blocked(dd, ps, pc, nDst, nSrc, out, wbuf, berr) ==
    [d |-> dd, pipes |-> ps, pc |-> pc, nDst |-> nDst, nSrc |-> nSrc, out |-> out,
     wbuf |-> wbuf, berr |-> berr, ret |-> "none"]

Returned(dd, ps, nDst, nSrc, out, err) ==
    [d |-> dd, pipes |-> ps, pc |-> "reader", nDst |-> nDst, nSrc |-> nSrc,
     out |-> out, wbuf |-> <<>>, berr |-> "nil", ret |-> err]

\* case uuStart up to the select (lines 135-193)
MultiScan(dd, ps, src, dstCap, nDst, nSrc, out) ==
    LET h == ScanHeader(dd, dstCap, src, nDst, nSrc, out)
    IN  IF h.kind = "shortdst"
        THEN Returned(dd, ps, h.nDst, h.nSrc, h.out, "ErrShortDst")
        ELSE IF h.kind = "none"
        THEN Returned(dd, ps, h.nDst, h.nSrc, h.out, NoHeaderErr(src, h.nSrc))
        ELSE Blocked([h.d EXCEPT !.multiErr = "nil", !.pipe = Len(ps) + 1],
                     Append(ps, NewPipe), "publish", h.nDst, h.nSrc, h.out,
                     <<>>, "nil")

\* MultiFinish without pipeW.Close()
MultiFinishNoClose(dd, ps, src, dstCap, nDst, nSrc, out, err) ==
    IF err /= "errFoundEOF" THEN Returned(dd, ps, nDst, nSrc, out, err)
    ELSE MultiScan([dd EXCEPT !.state = uuStart], ps, src, dstCap, nDst, nSrc, out)

\* lines 238-246 in multi mode: return, or close the write side and go on
\* with the search for the next header
MultiFinish(dd, ps, src, dstCap, nDst, nSrc, out, err) ==
    IF err /= "errFoundEOF" THEN Returned(dd, ps, nDst, nSrc, out, err)
    ELSE MultiScan([dd EXCEPT !.state = uuStart],
                   [ps EXCEPT ![dd.pipe] = CloseW(@, "EOF")],
                   src, dstCap, nDst, nSrc, out)

\* case uuBody up to pipeW.Write (lines 204-226)
MultiBody(dd, ps, cancelClosed, src, dstCap, atEOF, nDst, nSrc, out) ==
    LET b == uuBodyDecTransform(dstCap - nDst, From(src, nSrc), atEOF)
    IN  IF dd.multiErr = "nil" THEN
            IF b.nDst > 0 THEN
                IF cancelClosed
                THEN Returned(dd, closePipe(ps, dd), nDst, nSrc + b.nSrc, out,
                              "ErrUuCancel")
                ELSE Blocked(dd, ps, "write", nDst, nSrc + b.nSrc, out, b.out, b.err)
            ELSE MultiFinish(dd, ps, src, dstCap, nDst, nSrc + b.nSrc, out, b.err)
        ELSE MultiFinish(dd, ps, src, dstCap, nDst + b.nDst, nSrc + b.nSrc,
                         out \o b.out, b.err)

\* MultiAfterWrite with every error of Write returned to the caller
MultiAfterWriteFatal(dd, ps, src, dstCap, nDst, nSrc, out, berr, werr) ==
    IF werr /= "nil" THEN Returned(dd, ps, nDst, nSrc, out, werr)
    ELSE MultiFinish(dd, ps, src, dstCap, nDst, nSrc, out, berr)

\* after pipeW.Write returned werr (lines 227-246)
MultiAfterWrite(dd, ps, src, dstCap, nDst, nSrc, out, berr, werr) ==
    IF werr = "ErrUuCancel" THEN Returned(dd, ps, nDst, nSrc, out, werr)
    ELSE MultiFinish([dd EXCEPT !.multiErr = IF werr /= "nil" THEN werr ELSE @],
                     ps, src, dstCap, nDst, nSrc, out, berr)

\* the driver takes an outcome: blocks inside Transform, or Transform returns
\* to Reader.Read
Take(o) ==
    /\ d' = o.d
    /\ pipes' = o.pipes
    /\ IF o.ret = "none"
       THEN /\ drv' = [pc |-> o.pc, nDst |-> o.nDst, nSrc |-> o.nSrc, out |-> o.out,
                       wbuf |-> o.wbuf, berr |-> o.berr]
            /\ UNCHANGED <<rd, drvOut>>
       ELSE /\ drv' = NoDrv
            /\ rd' = RdAfter(rd, o.nDst, o.nSrc, o.ret)
            /\ drvOut' = drvOut \o o.out

-----------------------------------------------------------------------------
(* Spec: a decoder made by NewMultiDecode (or, for comparison, NewDecode) is  *)
(* driven over a stream of sections and other lines, while a consumer ranges  *)
(* over the channel of handles and the cancel function may be called.         *)

\* ioutil.ReadAll(transform.NewReader(bytes.NewBuffer(p), e))
RECURSIVE ReadAllEncode(_, _, _, _)
ReadAllEncode(e, r, p, out) ==
    IF r.next = "done" THEN out
    ELSE IF r.next = "read" THEN ReadAllEncode(e, RdRefill(r, p), p, out)
    ELSE LET res == EncodeTransform(e, BufSize, r.win, r.err = "EOF")
         IN  ReadAllEncode([e EXCEPT !.state = res.state],
                           RdAfter(r, res.nDst, res.nSrc, res.err), p,
                           out \o res.out)

Sec(p) == [kind |-> "sec", bytes |-> p]
Junk(b) == [kind |-> "junk", bytes |-> b]
Bad(b) == [kind |-> "bad", bytes |-> b]

\* "hi\n" and "NO begin string\n"-like lines that are not headers
JunkA == <<104, 105, LF>>
JunkB == <<78, 79, 32, 98, 101, 103, 105, 110, LF>>
\* dummyBeginLine of uu_test.go, shortened: "begin 666 f\n"
DummyBegin == <<98, 101, 103, 105, 110, 32, 54, 54, 54, 32, 102, LF>>
\* TestDecodeWrongUpperLimnitChar: a body line whose first character is 'a'
BadLine == <<97, 50, 50, 33, 76, LF>>
\* a header line without a number for the permission: "begin abc x\n"
WordHeader == <<98, 101, 103, 105, 110, 32, 97, 98, 99, 32, 120, LF>>
\* "#0V%T\n" of TestDecFirstOne3: the body line of "Cat"
CatLine == <<35, 48, 86, 37, 84, LF>>
\* TestDecodeLongLine: a body line of 'a' that has no end
LongLen == 70
LongLine == [i \in 1..LongLen |-> 97]

Scenarios ==
    { <<Sec(Pattern(2, 3))>>,
      <<Sec(Pattern(1, MaxPayload)), Sec(Pattern(2, 2))>>,
      <<Junk(JunkA), Sec(Pattern(1, 2)), Junk(JunkB), Sec(Pattern(2, 46)),
        Junk(JunkA)>>,
      <<Sec(<<>>), Sec(Pattern(1, 1))>>,
      <<Sec(Pattern(1, 2)), Bad(DummyBegin \o BadLine \o EndLine(<<LF>>))>>,
      <<Bad(DummyBegin \o LongLine)>>,
      <<Junk(JunkA)>>,
      <<Bad(DummyBegin \o CatLine)>>,
      <<Sec(Pattern(1, 2)),
        Bad(WordHeader \o CatLine \o <<uuPadding, LF>> \o uuEndMarker \o <<LF>>)>> }

PartText(part, e) ==
    IF part.kind = "sec" THEN ReadAllEncode(e, NewReader, part.bytes, <<>>)
    ELSE part.bytes

RECURSIVE StreamOf(_, _)
StreamOf(ps, e) ==
    IF ps = <<>> THEN <<>> ELSE PartText(Head(ps), e) \o StreamOf(Tail(ps), e)

Init ==
    /\ payload = <<>>
    /\ \E eol \in Eols : enc = NewEncode(TRUE, eol, <<>>)
    /\ encRd = NewReader
    /\ encOut = <<>>
    /\ phase = "multi"
    /\ parts \in Scenarios
    /\ input = StreamOf(parts, enc)
    /\ d \in {NewDecode, NewMultiDecodeD}
    /\ rd = NewReader
    /\ drvOut = <<>>
    /\ drv = NoDrv
    /\ pipes = <<>>
    /\ chClosed = FALSE
    /\ cons = NoCons
    /\ cncl = NoCncl
    /\ hist = NoHist

\* a panic ends the whole program
Crashed == cncl.panic \/ (rd.next = "done" /\ rd.err = "panic")

\* Reader.Read calls Decode.Transform of a multi-section decoder
DrvCallMulti ==
    /\ phase = "multi" /\ ~Crashed
    /\ drv.pc = "reader"
    /\ rd.next = "call"
    /\ d.multi
    /\ Take(IF Len(rd.win) = 0
            THEN Returned(d, pipes, 0, 0, <<>>, EmptySrcErr(d))
            ELSE IF d.state = uuStart
            THEN MultiScan(d, pipes, rd.win, BufSize, 0, 0, <<>>)
            ELSE MultiBody(d, pipes, cncl.closed, rd.win, BufSize, rd.err = "EOF",
                           0, 0, <<>>))
    /\ UNCHANGED <<payload, enc, encRd, encOut, phase, input, parts, chClosed,
                   cons, cncl, hist>>

\* case d.ch <- r of the select, met by the consumer's receive (for r := range ch)
PublishSend ==
    /\ phase = "multi" /\ ~Crashed
    /\ drv.pc = "publish"
    /\ cons.pc = "recv"
    /\ ~chClosed
    /\ drv' = [drv EXCEPT !.pc = "body"]
    /\ cons' = [pc |-> "have", cur |-> d.pipe, got |-> Append(cons.got, <<>>),
                ends |-> Append(cons.ends, "open")]
    /\ hist' = [hist EXCEPT !.pubs = Append(@, d.pipe),
                            !.pubAfterCancel = @ \/ cncl.closed]
    /\ UNCHANGED <<payload, enc, encRd, encOut, phase, input, parts, d, rd, drvOut,
                   pipes, chClosed, cncl>>

\* case <-d.cancel of the select
PublishCancel ==
    /\ phase = "multi" /\ ~Crashed
    /\ drv.pc = "publish"
    /\ cncl.closed
    /\ Take(Returned(d, closePipe(pipes, d), drv.nDst, drv.nSrc, drv.out,
                     "ErrUuCancel"))
    /\ UNCHANGED <<payload, enc, encRd, encOut, phase, input, parts, chClosed,
                   cons, cncl, hist>>

\* the fallthrough into case uuBody after the handle was sent
DrvBody ==
    /\ phase = "multi" /\ ~Crashed
    /\ drv.pc = "body"
    /\ Take(MultiBody(d, pipes, cncl.closed, rd.win, BufSize, rd.err = "EOF",
                      drv.nDst, drv.nSrc, drv.out))
    /\ UNCHANGED <<payload, enc, encRd, encOut, phase, input, parts, chClosed,
                   cons, cncl, hist>>

\* WriteDone that does not wait for the reader of the pipe
WriteDoneNoWait ==
    /\ phase = "multi" /\ ~Crashed
    /\ drv.pc = "write"
    /\ Take(MultiAfterWrite(d, pipes, rd.win, BufSize, drv.nDst, drv.nSrc,
                            drv.out, drv.berr, "nil"))
    /\ UNCHANGED <<payload, enc, encRd, encOut, phase, input, parts, chClosed,
                   cons, cncl, hist>>

\* pipeW.Write returns: all bytes were read, or the pipe was closed
WriteDone ==
    /\ phase = "multi" /\ ~Crashed
    /\ drv.pc = "write"
    /\ \E werr \in (IF drv.wbuf = <<>> THEN {"nil"}
                    ELSE IF PipeClosed(pipes[d.pipe]) THEN WriteErrs(pipes[d.pipe])
                    ELSE {}) :
          /\ Take(MultiAfterWrite(d, pipes, rd.win, BufSize, drv.nDst, drv.nSrc,
                                  drv.out, drv.berr, werr))
          /\ hist' = [hist EXCEPT !.wfail = @ \/ werr /= "nil"]
    /\ UNCHANGED <<payload, enc, encRd, encOut, phase, input, parts, chClosed,
                   cons, cncl>>

\* the consumer's Read(p) on its handle, len(p) = ReadBuf: an error when the
\* pipe is closed, else bytes of the Write in progress
ConsRead ==
    /\ phase = "multi" /\ ~Crashed
    /\ cons.pc = "have"
    /\ cons.ends[cons.cur] = "open"
    /\ IF PipeClosed(pipes[cons.cur])
       THEN /\ \E e \in ReadErrs(pipes[cons.cur]) :
                  cons' = [cons EXCEPT !.ends[cons.cur] = e]
            /\ UNCHANGED drv
       ELSE /\ drv.pc = "write" /\ d.pipe = cons.cur /\ drv.wbuf /= <<>>
            /\ LET n == Min(ReadBuf, Len(drv.wbuf))
               IN  /\ cons' = [cons EXCEPT !.got[cons.cur] = @ \o SubSeq(drv.wbuf, 1, n)]
                   /\ drv' = [drv EXCEPT !.wbuf = From(@, n)]
    /\ hist' = [hist EXCEPT !.consAfterCancel = @ \/ cncl.closed]
    /\ UNCHANGED <<payload, enc, encRd, encOut, phase, input, parts, d, rd, drvOut,
                   pipes, chClosed, cncl>>

\* the consumer's r.Close() on its handle, then the next round of its loop
ConsClose ==
    /\ phase = "multi" /\ ~Crashed
    /\ cons.pc = "have"
    /\ pipes' = [pipes EXCEPT ![cons.cur] = CloseR(@, "ErrClosedPipe")]
    /\ cons' = [cons EXCEPT !.pc = "recv"]
    /\ hist' = [hist EXCEPT !.early = @ \/ cons.ends[cons.cur] = "open",
                            !.consAfterCancel = @ \/ cncl.closed]
    /\ UNCHANGED <<payload, enc, encRd, encOut, phase, input, parts, d, rd, drvOut,
                   drv, chClosed, cncl>>

\* the consumer's loop goes to its next round without closing the handle
ConsNext ==
    /\ phase = "multi" /\ ~Crashed
    /\ cons.pc = "have"
    /\ cons' = [cons EXCEPT !.pc = "recv"]
    /\ hist' = [hist EXCEPT !.early = @ \/ cons.ends[cons.cur] = "open",
                            !.consAfterCancel = @ \/ cncl.closed]
    /\ UNCHANGED <<payload, enc, encRd, encOut, phase, input, parts, d, rd, drvOut,
                   drv, pipes, chClosed, cncl>>

\* for r := range ch ends: the channel is closed
ConsExit ==
    /\ phase = "multi" /\ ~Crashed
    /\ cons.pc = "recv"
    /\ chClosed
    /\ cons' = [cons EXCEPT !.pc = "exit"]
    /\ UNCHANGED <<payload, enc, encRd, encOut, phase, input, parts, d, rd, drvOut,
                   drv, pipes, chClosed, cncl, hist>>

\* the cancel function, first statement: close(csign)
CancelSignal ==
    /\ phase = "multi" /\ ~Crashed
    /\ d.multi
    /\ cncl.pc = "idle"
    /\ cncl.calls < MaxCancelCalls
    /\ cncl' = IF cncl.closed
               THEN [cncl EXCEPT !.calls = @ + 1, !.panic = TRUE]
               ELSE [cncl EXCEPT !.calls = @ + 1, !.closed = TRUE, !.pc = "closePipe"]
    /\ hist' = [hist EXCEPT !.cancelAtWrite =
                   @ \/ (~cncl.closed /\ drv.pc = "write" /\ drv.wbuf /= <<>>
                         /\ ~PipeClosed(pipes[d.pipe]))]
    /\ UNCHANGED <<payload, enc, encRd, encOut, phase, input, parts, d, rd, drvOut,
                   drv, pipes, chClosed, cons>>

\* CancelClosePipe that closes the channel of handles as well
CancelClosePipeAndCh ==
    /\ phase = "multi" /\ ~Crashed
    /\ cncl.pc = "closePipe"
    /\ pipes' = closePipe(pipes, d)
    /\ cncl' = [cncl EXCEPT !.pc = "idle"]
    /\ chClosed' = TRUE
    /\ UNCHANGED <<payload, enc, encRd, encOut, phase, input, parts, d, rd, drvOut,
                   drv, cons, hist>>

\* the cancel function, second statement: d.closePipe()
CancelClosePipe ==
    /\ phase = "multi" /\ ~Crashed
    /\ cncl.pc = "closePipe"
    /\ pipes' = closePipe(pipes, d)
    /\ cncl' = [cncl EXCEPT !.pc = "idle"]
    /\ UNCHANGED <<payload, enc, encRd, encOut, phase, input, parts, d, rd, drvOut,
                   drv, chClosed, cons, hist>>

\* Decode.Close, called by the producer once ReadAll has returned
Close ==
    /\ phase = "multi" /\ ~Crashed
    /\ rd.next = "done"
    /\ hist.closeCalls = 0
    /\ chClosed' = (chClosed \/ d.multi)
    /\ hist' = [hist EXCEPT !.closeCalls = @ + 1]
    /\ UNCHANGED <<payload, enc, encRd, encOut, phase, input, parts, d, rd, drvOut,
                   drv, pipes, cons, cncl>>

Next ==
    \/ DrvRead \/ DrvCallSingle \/ DrvCallMulti \/ PublishSend \/ PublishCancel
    \/ DrvBody \/ WriteDone \/ ConsRead \/ ConsClose \/ ConsNext \/ ConsExit
    \/ CancelSignal \/ CancelClosePipe \/ Close

Spec == Init /\ [][Next]_vars

-----------------------------------------------------------------------------
(* SpecDec: a caller that calls Transform of a single-section decoder itself   *)
(* (TestDecFirstOne2..4), window after window over one input, each window     *)
(* starting at the first byte not yet consumed, with a destination of its     *)
(* choice; Reset re-arms the decoder for another input (ExampleDecode).       *)

\* Decode.Reset that leaves the file name
DecodeResetKeepName(dd) == [dd EXCEPT !.state = uuStart, !.Permission = <<>>]

\* Decode.Reset
DecodeReset(dd) ==
    [dd EXCEPT !.state = uuStart, !.Permission = <<>>, !.Filename = <<>>]

MaxResets == 1
AmpleDst == 200
DecWins == {7, 30, AmpleDst}
DecCaps == {2, 4, 48, AmpleDst}

\* "begin 644 file.txt\n" of TestDecFirstOne3, "additional bytes\n"
FileHeader == <<98, 101, 103, 105, 110, 32, 54, 52, 52, 32, 102, 105, 108, 101,
                46, 116, 120, 116, LF>>
Cat == <<67, 97, 116>>
Additional == <<97, 100, 100, 105, 116, 105, 111, 110, 97, 108, 32, 98, 121,
                116, 101, 115, LF>>
\* "`\nend\n"
Trailer == <<uuPadding, LF>> \o uuEndMarker \o <<LF>>
\* header lines "begin 644 my file.txt\n", "begin -1 x\n"
SpacedHeader == <<98, 101, 103, 105, 110, 32, 54, 52, 52, 32, 109, 121, 32, 102,
                  105, 108, 101, 46, 116, 120, 116, LF>>
SignedHeader == <<98, 101, 103, 105, 110, 32, 45, 49, 32, 120, LF>>
\* "begin 666 f" without its end of line
BeginNoEnd == <<98, 101, 103, 105, 110, 32, 54, 54, 54, 32, 102>>
\* body lines "#a~z{\n" (characters above 0x60) and "\x1f22!L\n" (length byte 0x1f)
HighChars == <<35, 97, 126, 122, 123, LF>>
LowLine == <<31, 50, 50, 33, 76, LF>>
\* a body line with length byte 'a' (65 bytes) that has the characters for them
OverLine == <<97>> \o [i \in 1..88 |-> 33] \o <<LF>>
\* lines that start with "begin" and are no header: "begin\n" and
\* "beginning of message\n"
BeginAlone == uuBeginMarker \o <<LF>>
Beginning == uuBeginMarker \o <<110, 105, 110, 103, 32, 111, 102, 32, 109, 101, 115,
                              115, 97, 103, 101, LF>>

\* an input in its pieces: the lines before the header, the header line, the
\* body with its trailer, what follows; payload is what a well-formed body
\* decodes to
Case(pre, head, body, rest, plain, ok) ==
    [pre |-> pre, head |-> head, body |-> body, rest |-> rest,
     payload |-> plain, ok |-> ok]
InputText(c) == c.pre \o c.head \o c.body \o c.rest

\* the section the encoder makes of p, its header line apart
EncodedCase(p, pre, rest) ==
    LET e == NewEncode(TRUE, <<LF>>, <<>>)
        text == ReadAllEncode(e, NewReader, p, <<>>)
        hl == IndexLF(text, 0) + 1
    IN  Case(pre, SubSeq(text, 1, hl), From(text, hl), rest, p, TRUE)

DecCases ==
    { Case(<<>>, FileHeader, CatLine \o Trailer, Additional, Cat, TRUE),
      Case(JunkA, FileHeader, CatLine \o CatLine \o Trailer, <<>>, Cat \o Cat, TRUE),
      EncodedCase(Pattern(1, 46), <<>>, FileHeader \o CatLine \o Trailer),
      Case(<<>>, SpacedHeader, CatLine \o Trailer, <<>>, Cat, TRUE),
      Case(<<>>, SignedHeader, CatLine \o Trailer, <<>>, Cat, TRUE),
      Case(<<>>, WordHeader, CatLine \o Trailer, <<>>, Cat, TRUE),
      Case(<<>>, DummyBegin, LongLine, <<>>, <<>>, FALSE),
      Case(<<>>, BeginNoEnd \o LongLine, <<>>, <<>>, <<>>, FALSE),
      Case(<<>>, DummyBegin, CatLine \o BadLine \o Trailer, <<>>, <<>>, FALSE),
      Case(<<>>, DummyBegin, LowLine \o Trailer, <<>>, <<>>, FALSE),
      Case(<<>>, DummyBegin, OverLine \o Trailer, <<>>, <<>>, FALSE),
      Case(<<>>, DummyBegin, HighChars \o Trailer, <<>>, <<>>, FALSE),
      Case(BeginAlone, FileHeader, CatLine \o Trailer, <<>>, Cat, TRUE),
      Case(Beginning, FileHeader, CatLine \o Trailer, <<>>, Cat, TRUE) }

\* no call made yet: pos bytes of the input are consumed
NoCall == [pc |-> "none", pos |-> 0]

\* the errors after which the caller gives up the input
Fatal == {"ErrBadUUDec", "ErrBadLen", "panic"}

InitDec ==
    /\ payload = <<>>
    /\ enc = NewEncode(TRUE, <<LF>>, <<>>)
    /\ encRd = NewReader
    /\ encOut = <<>>
    /\ phase = "call"
    /\ parts \in DecCases
    /\ input = InputText(parts)
    /\ d = NewDecode
    /\ rd = NewReader
    /\ drvOut = <<>>
    /\ drv = NoCall
    /\ pipes = <<>>
    /\ chClosed = FALSE
    /\ cons = NoCons
    /\ cncl = NoCncl
    /\ hist = NoHist

\* tf.Transform(dst[:], src, atEOF) on the decoder
DecCall ==
    /\ drv.pc \in {"none", "dec"}
    /\ drv.pc = "dec" => drv.res.err \notin Fatal
    /\ \E w \in DecWins, cap \in DecCaps, atEOF \in BOOLEAN :
          /\ atEOF => drv.pos + w >= Len(input)
          /\ \E src \in {Slice(input, drv.pos, Min(drv.pos + w, Len(input)))} :
             \E r \in {DecodeTransformSingle(d, cap, src, atEOF)} :
             \E f \in {IF hist.fresh = d THEN r
                       ELSE DecodeTransformSingle(hist.fresh, cap, src, atEOF)} :
              /\ d' = r.d
              /\ drvOut' = drvOut \o r.out
              /\ drv' = [pc |-> "dec", pos |-> drv.pos + r.nSrc, pre |-> d,
                         dstCap |-> cap, src |-> src, atEOF |-> atEOF,
                         res |-> Ret(r.nDst, r.nSrc, r.err, r.out),
                         asFresh |-> Ret(f.nDst, f.nSrc, f.err, f.out)]
              /\ hist' = [hist EXCEPT !.fresh = f.d]
    /\ UNCHANGED <<payload, enc, encRd, encOut, phase, input, parts, rd, pipes,
                   chClosed, cons, cncl>>

\* tf.Reset(), and another input given to the decoder
DecReset ==
    /\ drv.pc = "dec"
    /\ drv.res.err /= "panic"
    /\ hist.resets < MaxResets
    /\ d' = DecodeReset(d)
    /\ \E c \in DecCases : parts' = c /\ input' = InputText(c)
    /\ drvOut' = <<>>
    /\ drv' = NoCall
    /\ hist' = [hist EXCEPT !.resets = @ + 1, !.fresh = NewDecode]
    /\ UNCHANGED <<payload, enc, encRd, encOut, phase, rd, pipes, chClosed, cons,
                   cncl>>

NextDec == DecCall \/ DecReset

SpecDec == InitDec /\ [][NextDec]_vars

-----------------------------------------------------------------------------
(* SpecEnc: a caller that calls Transform of an encoder itself (TestEncode2), *)
(* window after window over one payload; Reset and ResetAll re-arm the        *)
(* encoder for another run over the payload (TestEncode5).                    *)

\* Encode.Reset
EncodeReset(e) == [e EXCEPT !.state = uuStart]

\* Encode.ResetAll that leaves the state alone
EncodeResetAllNoRestart(e, permit, name) ==
    [e EXCEPT !.name = name, !.permit = permit]

\* Encode.ResetAll(permit, name)
EncodeResetAll(e, permit, name) ==
    EncodeReset([e EXCEPT !.name = name, !.permit = permit])

EncWins == {maxSingleLine, AmpleDst}
EncCaps == {4, 20, 70, AmpleDst}

\* "I love you forever.", "pp.txt", "777", "pp.688" of TestEncode3..5
Love == <<73, 32, 108, 111, 118, 101, 32, 121, 111, 117, 32, 102, 111, 114, 101,
          118, 101, 114, 46>>
PpTxt == <<112, 112, 46, 116, 120, 116>>
P777 == <<55, 55, 55>>
Pp688 == <<112, 112, 46, 54, 56, 56>>
EncPayloads == {<<>>, Love, Pattern(3, maxSingleLine), Pattern(1, 46),
                Pattern(2, 90)}
\* useGrave and eol as the tests give them
EncStyles == {<<TRUE, <<LF>>>>, <<FALSE, <<CR, LF>>>>}
EncOptions == {<<>>, <<PpTxt>>, <<PpTxt, P777>>}

InitEnc ==
    /\ payload \in EncPayloads
    /\ \E st \in EncStyles, opt \in EncOptions :
          /\ enc = NewEncode(st[1], st[2], opt)
          /\ parts = [option |-> opt]
    /\ encRd = NewReader
    /\ encOut = <<>>
    /\ phase = "call"
    /\ input = <<>>
    /\ d = NewDecode
    /\ rd = NewReader
    /\ drvOut = <<>>
    /\ drv = NoCall
    /\ pipes = <<>>
    /\ chClosed = FALSE
    /\ cons = NoCons
    /\ cncl = NoCncl
    /\ hist = [NoHist EXCEPT !.fresh = enc]

\* tf.Transform(dst[:], src, atEOF) on the encoder; the run is done when a call
\* with atEOF returned nil
EncCallDirect ==
    /\ drv.pc \in {"none", "enc"}
    /\ drv.pc = "enc" => ~drv.done
    /\ \E w \in EncWins, cap \in EncCaps, atEOF \in BOOLEAN :
          /\ atEOF => drv.pos + w >= Len(payload)
          /\ \E src \in {Slice(payload, drv.pos, Min(drv.pos + w, Len(payload)))} :
             \E r \in {EncodeTransform(enc, cap, src, atEOF)} :
             \E f \in {IF hist.fresh = enc THEN r
                       ELSE EncodeTransform(hist.fresh, cap, src, atEOF)} :
              /\ enc' = [enc EXCEPT !.state = r.state]
              /\ encOut' = encOut \o r.out
              /\ drv' = [pc |-> "enc", pos |-> drv.pos + r.nSrc, pre |-> enc,
                         dstCap |-> cap, src |-> src, atEOF |-> atEOF,
                         res |-> Ret(r.nDst, r.nSrc, r.err, r.out),
                         asFresh |-> Ret(f.nDst, f.nSrc, f.err, f.out),
                         done |-> atEOF /\ r.err = "nil"]
              /\ hist' = [hist EXCEPT !.fresh.state = f.state]
    /\ UNCHANGED <<payload, encRd, phase, input, parts, d, rd, drvOut, pipes,
                   chClosed, cons, cncl>>

\* e.ResetAll("777", "pp.688"), and the payload given again from its start
EncResetAll ==
    /\ drv.pc = "enc"
    /\ hist.resets < MaxResets
    /\ enc' = EncodeResetAll(enc, P777, Pp688)
    /\ encOut' = <<>>
    /\ drv' = NoCall
    /\ hist' = [hist EXCEPT !.resets = @ + 1,
                            !.fresh = NewEncode(enc.useGrave, enc.eol, <<Pp688, P777>>)]
    /\ UNCHANGED <<payload, encRd, phase, input, parts, d, rd, drvOut, pipes,
                   chClosed, cons, cncl>>

\* e.Reset(), and the payload given again from its start
EncReset ==
    /\ drv.pc = "enc"
    /\ hist.resets < MaxResets
    /\ enc' = EncodeReset(enc)
    /\ encOut' = <<>>
    /\ drv' = NoCall
    /\ hist' = [hist EXCEPT !.resets = @ + 1,
                            !.fresh = NewEncode(enc.useGrave, enc.eol,
                                                <<enc.name, enc.permit>>)]
    /\ UNCHANGED <<payload, encRd, phase, input, parts, d, rd, drvOut, pipes,
                   chClosed, cons, cncl>>

NextEnc == EncCallDirect \/ EncResetAll \/ EncReset

SpecEnc == InitEnc /\ [][NextEnc]_vars

-----------------------------------------------------------------------------
(* SpecBody: a caller that calls uuBodyDec.Transform itself, window after    *)
(* window over the body of one section, each window starting at the first    *)
(* byte not yet consumed (the way Decode.Transform calls it on src[nSrc:]).  *)

\* a body line with length byte 0x20 + n and c characters '!'
LenLine(n, c) == <<uuOffset + n>> \o [i \in 1..c |-> 33] \o <<LF>>

\* the body and trailer the encoder makes of p with the end of line eol
EncodedBody(p, eol) ==
    LET text == ReadAllEncode(NewEncode(TRUE, eol, <<>>), NewReader, p, <<>>)
    IN  Case(<<>>, <<>>, From(text, IndexLF(text, 0) + 1), <<>>, p, TRUE)

\* bodies: of TestDecFirstOne3 with the trailers "`\nend\n", "`\nend",
\* "`\neof\n" and "`\n\nend\n", with an empty line after its line, with
\* its line twice; made by the encoder; of one line with a given length byte
\* and number of characters
BodyCases ==
    { Case(<<>>, <<>>, CatLine \o Trailer, <<>>, Cat, TRUE),
      Case(<<>>, <<>>, CatLine \o <<uuPadding, LF>> \o uuEndMarker, <<>>, Cat, TRUE),
      Case(<<>>, <<>>, CatLine \o <<uuPadding, LF, 101, 111, 102, LF>>, <<>>, Cat, FALSE),
      Case(<<>>, <<>>, CatLine \o <<uuPadding, LF, LF>> \o uuEndMarker \o <<LF>>,
           <<>>, Cat, FALSE),
      Case(<<>>, <<>>, CatLine \o <<LF>> \o CatLine \o Trailer, <<>>, Cat, FALSE),
      Case(<<>>, <<>>, CatLine \o CatLine \o Trailer, <<>>, Cat \o Cat, TRUE) }
    \cup { EncodedBody(Pattern(k, len), eol) :
              k \in {1, 2}, len \in {43, 44, 45, 46}, eol \in Eols }
    \cup { Case(<<>>, <<>>, LenLine(n, c) \o Trailer, <<>>, <<>>, FALSE) :
              n \in {0, 1, 3, 4, 42, 43, 44, 45, 46}, c \in {0, 4, 56, 59, 60, 64} }

\* the lengths of the windows the caller presents
BodyWins == {2, 5, 6, 9, 63, AmpleDst}

InitBody ==
    /\ payload = <<>>
    /\ enc = NewEncode(TRUE, <<LF>>, <<>>)
    /\ encRd = NewReader
    /\ encOut = <<>>
    /\ phase = "call"
    /\ parts \in BodyCases
    /\ input = parts.body
    /\ d = NewDecode
    /\ rd = NewReader
    /\ drvOut = <<>>
    /\ drv = NoCall
    /\ pipes = <<>>
    /\ chClosed = FALSE
    /\ cons = NoCons
    /\ cncl = NoCncl
    /\ hist = NoHist

\* d.uuBodyDec.Transform(dst, src, atEOF); the caller goes on after nil,
\* ErrShortSrc and ErrShortDst until it has presented the last window
BodyCall ==
    /\ drv.pc \in {"none", "body"}
    /\ drv.pc = "body" =>
          (drv.res.err \in {"nil", "ErrShortSrc", "ErrShortDst"} /\ ~drv.atEOF)
    /\ \E w \in BodyWins, cap \in DecCaps, atEOF \in BOOLEAN :
          /\ atEOF => drv.pos + w >= Len(input)
          /\ \E src \in {Slice(input, drv.pos, Min(drv.pos + w, Len(input)))} :
             \E r \in {uuBodyDecTransform(cap, src, atEOF)} :
              /\ drvOut' = drvOut \o r.out
              /\ drv' = [pc |-> "body", pos |-> drv.pos + r.nSrc, dstCap |-> cap,
                         src |-> src, atEOF |-> atEOF, res |-> r,
                         ample |-> (drv.pc = "body" => drv.ample) /\ cap = AmpleDst]
    /\ UNCHANGED <<payload, enc, encRd, encOut, phase, input, parts, d, rd, pipes,
                   chClosed, cons, cncl, hist>>

SpecBody == InitBody /\ [][BodyCall]_vars

-----------------------------------------------------------------------------
(* SpecParse: uuutil.Parse. Its consumer goroutine copies every section to a *)
(* file, its driver goroutine runs io.Copy over the decoder's reader and     *)
(* then Close, a third goroutine waits for both and closes done, and the     *)
(* caller's goroutine selects between the context and done. cncl holds the   *)
(* caller, the only one to call the cancel function: its place ("idle": in   *)
(* the select, or back from cancel), the context, done and what Parse        *)
(* returned.                                                                 *)

\* the caller of Parse at its select; ctx is "cancelled" (before the call),
\* "background" (never cancelled), "live" (may be cancelled) or "fired"
NoCaller == [closed |-> FALSE, calls |-> 0, pc |-> "idle", panic |-> FALSE,
             ctx |-> "background", done |-> FALSE, ret |-> "none"]

InitParse ==
    /\ payload = <<>>
    /\ \E eol \in Eols : enc = NewEncode(TRUE, eol, <<>>)
    /\ encRd = NewReader
    /\ encOut = <<>>
    /\ phase = "multi"
    /\ parts \in Scenarios
    /\ input = StreamOf(parts, enc)
    /\ d = NewMultiDecodeD
    /\ rd = NewReader
    /\ drvOut = <<>>
    /\ drv = NoDrv
    /\ pipes = <<>>
    /\ chClosed = FALSE
    /\ cons = NoCons
    /\ \E c \in {"cancelled", "background", "live"} :
          cncl = [NoCaller EXCEPT !.ctx = c]
    /\ hist = NoHist

\* io.Copy(f, r) returned nil at the end of the section: f.Close(), next round
ParseCopyEnd ==
    /\ cons.pc = "have"
    /\ cons.ends[cons.cur] = "EOF"
    /\ ConsNext

\* io.Copy(f, r) returned the error of a Read: r.Close(), f.Close(), next round
ParseCopyErr ==
    /\ cons.pc = "have"
    /\ cons.ends[cons.cur] \notin {"open", "EOF"}
    /\ ConsClose

\* getDir, OpenFile, TempFile or a write to the file failed: r.Close(), next round
ParseFileErr ==
    /\ cons.pc = "have"
    /\ cons.ends[cons.cur] = "open"
    /\ ConsClose

\* wait.Wait() returns once both goroutines are done; close(done)
ParseWait ==
    /\ hist.closeCalls > 0
    /\ cons.pc = "exit"
    /\ ~cncl.done
    /\ cncl' = [cncl EXCEPT !.done = TRUE]
    /\ UNCHANGED <<payload, enc, encRd, encOut, phase, input, parts, d, rd, drvOut,
                   drv, pipes, chClosed, cons, hist>>

\* the owner of the context cancels it
CtxCancel ==
    /\ cncl.ctx = "live"
    /\ cncl.pc /= "returned"
    /\ cncl' = [cncl EXCEPT !.ctx = "fired"]
    /\ UNCHANGED <<payload, enc, encRd, encOut, phase, input, parts, d, rd, drvOut,
                   drv, pipes, chClosed, cons, hist>>

\* case <-ctx.Done() of the select: cancel() is called
ParseCtxDone ==
    /\ cncl.ctx \in {"cancelled", "fired"}
    /\ ~cncl.closed
    /\ CancelSignal

\* case <-done of the select, or <-done after err2 = ctx.Err(); Parse returns
\* err1, or err2 when err1 is nil
ParseReturn ==
    /\ cncl.pc = "idle"
    /\ cncl.done
    /\ cncl' = [cncl EXCEPT !.pc = "returned",
                            !.ret = IF ReadAllErr(rd) /= "nil" THEN ReadAllErr(rd)
                                    ELSE IF cncl.closed THEN "Canceled" ELSE "nil"]
    /\ UNCHANGED <<payload, enc, encRd, encOut, phase, input, parts, d, rd, drvOut,
                   drv, pipes, chClosed, cons, hist>>

NextParse ==
    \/ DrvRead \/ DrvCallMulti \/ PublishSend \/ PublishCancel \/ DrvBody
    \/ WriteDone \/ Close \/ ConsRead \/ ParseCopyEnd \/ ParseCopyErr
    \/ ParseFileErr \/ ConsExit \/ ParseWait \/ CtxCancel \/ ParseCtxDone
    \/ CancelClosePipe \/ ParseReturn

\* the consumer, the waiting goroutine and the caller take the steps they can
\* take in the end (the Go scheduler runs every goroutine that is not
\* blocked); a failure of the file system and the cancelling of the context
\* need not happen, and nothing is assumed of the driver's speed
SpecParse ==
    /\ InitParse
    /\ [][NextParse]_vars
    /\ WF_vars(ConsRead \/ ParseCopyEnd \/ ParseCopyErr \/ ConsExit)
    /\ WF_vars(ParseWait)
    /\ WF_vars(ParseCtxDone \/ CancelClosePipe \/ ParseReturn)

-----------------------------------------------------------------------------
(* What the properties speak of *)

\* the payloads of the sections of the stream, in the order of their headers
RECURSIVE PayloadsOf(_)
PayloadsOf(ps) ==
    IF ps = <<>> THEN <<>>
    ELSE (IF Head(ps).kind = "junk" THEN <<>> ELSE <<Head(ps).bytes>>)
         \o PayloadsOf(Tail(ps))

\* the bytes of the stream that lie outside every section
RECURSIVE OutsideOf(_)
OutsideOf(ps) ==
    IF ps = <<>> THEN <<>>
    ELSE (IF Head(ps).kind = "junk" THEN Head(ps).bytes ELSE <<>>)
         \o OutsideOf(Tail(ps))

\* every section of the stream is a well-formed encoded section
WellFormed == \A i \in 1..Len(parts) : parts[i].kind \in {"sec", "junk"}

IsPrefix(a, b) == Len(a) <= Len(b) /\ SubSeq(b, 1, Len(a)) = a

\* ReadAll over the decoder's reader has returned
DrvDone == rd.next = "done"
DrvErr == ReadAllErr(rd)

-----------------------------------------------------------------------------
(* C1: encoding a payload to completion and decoding the text produced to   *)
(* completion with a single-section decoder yields the payload and no error *)
C1_RoundTrip ==
    (phase = "dec" /\ DrvDone) => (DrvErr = "nil" /\ drvOut = payload)

C1_Witness ==
    /\ phase = "dec" /\ DrvDone
    /\ Len(payload) = 46 /\ payload[1] = 255
    /\ enc.eol = <<CR, LF>> /\ ~enc.useGrave
    /\ drvOut = payload

(* C2: a stream of k well-formed sections, every handle read to its end and *)
(* cancel never called: the handles are published in the order of the       *)
(* headers, handle i yields payload i and then a clean end of data, exactly *)
(* k handles are published and the driver ends without error                *)
C2_MultiDecode ==
    (d.multi /\ WellFormed /\ ~cncl.closed /\ ~hist.early) =>
        LET pl == PayloadsOf(parts) IN
        /\ Len(hist.pubs) <= Len(pl)
        /\ hist.pubs = [i \in 1..Len(hist.pubs) |-> i]
        /\ \A i \in 1..Len(cons.got) :
              /\ IsPrefix(cons.got[i], pl[i])
              /\ cons.ends[i] \in {"open", "EOF"}
              /\ cons.ends[i] = "EOF" => cons.got[i] = pl[i]
        /\ DrvDone =>
              /\ DrvErr = "nil"
              /\ Len(hist.pubs) = Len(pl)
              /\ \A i \in 1..Len(pl) : cons.got[i] = pl[i] /\ pipes[i].werr = "EOF"

C2_Witness ==
    /\ d.multi /\ WellFormed /\ ~cncl.closed /\ ~hist.early /\ DrvDone
    /\ Len(hist.pubs) = 2
    /\ Len(cons.got[1]) = MaxPayload
    /\ cons.ends = <<"EOF", "EOF">>

(* C3: cancel called while the driver is blocked in the Write of a section, *)
(* the consumer neither reading nor closing the handle afterwards: the      *)
(* driver ends with ErrUuCancel                                             *)
C3_CancelDuringWrite ==
    (DrvDone /\ hist.cancelAtWrite /\ ~hist.consAfterCancel) => DrvErr = "ErrUuCancel"

(* C4: once cancel has been called, no further handle is delivered on the   *)
(* channel                                                                  *)
C4_NoPublishAfterCancel == ~hist.pubAfterCancel

(* C5: calling the cancel function a second time is a safe no-op: it does   *)
(* not panic                                                                *)
C5_CancelIdempotent == ~cncl.panic

(* C6: a consumer closing a handle early (cancel never called) does not     *)
(* make the driver report an error: the scan goes on, every section of the  *)
(* stream is published and each handle read to its end yields its payload   *)
C6_EarlyClose ==
    (d.multi /\ WellFormed /\ ~cncl.closed) =>
        LET pl == PayloadsOf(parts) IN
        /\ \A i \in 1..Len(cons.got) :
              /\ IsPrefix(cons.got[i], pl[i])
              /\ cons.ends[i] \in {"open", "EOF", "ErrClosedPipe"}
              /\ cons.ends[i] = "EOF" => cons.got[i] = pl[i]
        /\ DrvDone => (DrvErr = "nil" /\ hist.pubs = [i \in 1..Len(pl) |-> i])

C6_Witness ==
    /\ d.multi /\ WellFormed /\ ~cncl.closed /\ DrvDone
    /\ hist.early /\ hist.wfail
    /\ Len(cons.got) = 2
    /\ Len(cons.got[1]) < MaxPayload
    /\ cons.ends[2] = "EOF"

(* C7: in multi mode the bytes outside the sections are discarded: nothing  *)
(* is reported as written to the destination (no Write of a section having  *)
(* failed)                                                                  *)
C7_OutsideDiscarded == (d.multi /\ ~hist.wfail) => drvOut = <<>>

(* C7, amended: in multi mode the complete lines outside the sections are   *)
(* copied to the destination, in order: with no Write of a section failed   *)
(* the destination holds lines outside the sections only, and all of them   *)
(* once the driver has ended without error                                  *)
C7_OutsidePassedThrough ==
    (d.multi /\ ~hist.wfail) =>
        /\ IsPrefix(drvOut, OutsideOf(parts))
        /\ (DrvDone /\ DrvErr = "nil") => drvOut = OutsideOf(parts)

C7_Witness ==
    /\ d.multi /\ ~hist.wfail /\ DrvDone /\ DrvErr = "nil"
    /\ drvOut = JunkA \o JunkB \o JunkA
    /\ Len(hist.pubs) = 2

(* C8: in multi mode no decoded byte of a section is reported as written to *)
(* the destination: the destination holds bytes from outside the sections   *)
(* only                                                                     *)
C8_NoPayloadInDst == d.multi => IsPrefix(drvOut, OutsideOf(parts))

(* C9: in multi mode, when Transform has ended with ErrBadUUDec or          *)
(* ErrBadLen inside a section, the write side of that section's pipe is     *)
(* closed                                                                   *)
C9_FatalClosesPipe ==
    (d.multi /\ DrvDone /\ DrvErr \in {"ErrBadUUDec", "ErrBadLen"} /\ d.state = uuBody)
        => PipeClosed(pipes[d.pipe])

(* C10: the channel of handles is closed by Decode.Close and by nothing     *)
(* else, and never for a decoder made by NewDecode                          *)
C10_ClosedOnlyByClose ==
    /\ [](~d.multi => ~chClosed)
    /\ [](cons.pc = "exit" => (chClosed /\ hist.closeCalls > 0))
    /\ [][chClosed' /= chClosed => (Close /\ d.multi)]_vars

C10_Witness ==
    /\ d.multi /\ DrvDone /\ DrvErr = "ErrUuCancel"
    /\ cncl.closed /\ cncl.pc = "idle"
    /\ cons.pc = "recv" /\ ~chClosed

-----------------------------------------------------------------------------
(* Properties of single Transform calls (SpecDec, SpecEnc) *)

\* the last call of Decode.Transform: what it returned and what it left of src
DecCalled == drv.pc = "dec"
DecLeft == From(drv.src, drv.res.nSrc)

(* C11: a line without end that is too long gives ErrBadLen: in the body,   *)
(* when the bytes left of the window hold no '\n' and are more than 64      *)
(* (ErrShortSrc when they are 64 or fewer); while seeking the header, when  *)
(* the window starts with "begin" and holds no '\n'                         *)
C11_LineTooLong ==
    DecCalled =>
        /\ (drv.pre.state = uuStart /\ HasPrefix(drv.src, uuBeginMarker)
                /\ IndexLF(drv.src, 0) < 0)
             => (drv.res.err = "ErrBadLen" /\ drv.res.nSrc = 0 /\ drv.res.nDst = 0)
        /\ (d.state = uuBody /\ drv.res.err /= "panic" /\ DecLeft /= <<>>
                /\ IndexLF(DecLeft, 0) < 0)
             => drv.res.err = (IF Len(DecLeft) > maxUuDecLine THEN "ErrBadLen"
                               ELSE "ErrShortSrc")

C11_Witness ==
    /\ DecCalled /\ d.state = uuBody /\ drv.pre.state = uuStart
    /\ drv.res.err = "ErrBadLen"
    /\ Len(DecLeft) = LongLen /\ IndexLF(DecLeft, 0) < 0

(* C12: a body line whose first character is below 0x20 or above 0x60      *)
(* makes the call fail with ErrBadUUDec, and nothing of that line is        *)
(* consumed or output: the call returns what it returns on the window cut   *)
(* before that line                                                         *)
C12_BadLengthByte ==
    (DecCalled /\ d.state = uuBody /\ drv.res.err /= "panic"
        /\ IndexLF(DecLeft, 0) > 0
        /\ (DecLeft[1] < uuOffset \/ DecLeft[1] > uuPadding))
    => LET cut == DecodeTransformSingle(drv.pre, drv.dstCap,
                      SubSeq(drv.src, 1, drv.res.nSrc), FALSE)
       IN  /\ drv.res.err = "ErrBadUUDec"
           /\ drv.res.nSrc = cut.nSrc
           /\ drv.res.out = cut.out

C12_Witness ==
    /\ DecCalled /\ d.state = uuBody
    /\ drv.res.err = "ErrBadUUDec"
    /\ drv.res.out = Cat
    /\ SubSeq(DecLeft, 1, Len(BadLine)) = BadLine

\* the offsets in b at which a line starts
LineStarts(b) == {0} \cup {i \in 1..(Len(b) - 1) : b[i] = LF}

\* the line of b at offset o is complete, has a length byte within 0x20..0x5f
\* and, after it, a character below 0x20 or above 0x60 (a '\r' that ends the
\* line apart)
BadDataLine(b, o) ==
    LET m == IndexLF(b, o) IN
    /\ m > 0
    /\ b[o + 1] >= uuOffset /\ b[o + 1] < uuPadding
    /\ \E k \in 2..m :
          /\ ~(k = m /\ b[o + k] = CR)
          /\ (b[o + k] < uuOffset \/ b[o + k] > uuPadding)

(* C13: a character of a body line after the length byte that is below     *)
(* 0x20 or above 0x60 makes the decoding fail with ErrBadUUDec: no call     *)
(* consumes a byte of such a line without returning that error              *)
C13_BadDataChar ==
    DecCalled =>
        \A o \in LineStarts(parts.body) :
            (BadDataLine(parts.body, o)
                /\ drv.pos > Len(parts.pre) + Len(parts.head) + o)
            => drv.res.err = "ErrBadUUDec"

(* C14: when the destination is too small for what the window decodes to,  *)
(* Decode.Transform returns ErrShortDst having output whole lines only, and *)
(* the call made again from the returned offsets with an ample destination  *)
(* completes the output of a call with an ample destination                 *)
C14_ShortDstRetry ==
    DecCalled =>
        LET ample == DecodeTransformSingle(drv.pre, AmpleDst, drv.src, drv.atEOF)
            retry == DecodeTransformSingle(d, AmpleDst, DecLeft, drv.atEOF)
        IN  (ample.err /= "panic" /\ ample.nDst > drv.dstCap) =>
                /\ drv.res.err = "ErrShortDst"
                /\ drv.res.out \o retry.out = ample.out
                /\ retry.err = ample.err

\* the last call of Encode.Transform
EncCalled == drv.pc = "enc"

\* the header line of an encoder's configuration
HeaderOf(e) == uuBeginMarker \o <<SP>> \o e.permit \o <<SP>> \o e.name \o e.eol

\* "begin 644 pp.txt\n322!L;W9E('EO=2!F;W)E=F5R+@``\n`\nend\n" of TestEncode3
LoveText ==
    <<98, 101, 103, 105, 110, 32, 54, 52, 52, 32, 112, 112, 46, 116, 120, 116, 10,
      51, 50, 50, 33, 76, 59, 87, 57, 69, 40, 39, 69, 79, 61, 50, 33, 70, 59, 87,
      41, 69, 61, 70, 53, 82, 43, 64, 96, 96, 10, 96, 10, 101, 110, 100, 10>>

\* out is the header of e, floor(L/45) lines of 'M' and 60 characters, a last
\* line for L mod 45 bytes, and the trailer
EncLayout(out, e, L) ==
    LET el == Len(e.eol)
        hl == Len(HeaderOf(e))
        q == L \div 45
        r == L % 45
        c == 4 * ((r + 2) \div 3)
        fin == hl + q * (61 + el)
    IN  /\ Len(out) = fin + 1 + c + el + 1 + el + 3 + el
        /\ SubSeq(out, 1, hl) = HeaderOf(e)
        /\ \A k \in 0..(q - 1) :
              LET o == hl + k * (61 + el) IN
              /\ out[o + 1] = 77
              /\ \A j \in 2..61 : out[o + j] \in 32..96
              /\ Slice(out, o + 61, o + 61 + el) = e.eol
        /\ out[fin + 1] = 32 + r
        /\ \A j \in 2..(1 + c) : out[fin + j] \in 32..96
        /\ From(out, fin + 1 + c) = e.eol \o <<96>> \o e.eol \o <<101, 110, 100>> \o e.eol

(* C15: a payload of L bytes encoded to the end gives the header line, then *)
(* floor(L/45) lines of 'M', 60 characters and eol, then a line of the      *)
(* character 0x20 + (L mod 45) and 4*ceil((L mod 45)/3) characters, then    *)
(* eol, '`', eol, "end", eol; "I love you forever." with grave, "\n" and    *)
(* the name pp.txt gives the text of TestEncode3                            *)
C15_EncodedLayout ==
    (EncCalled /\ drv.done) =>
        /\ EncLayout(encOut, enc, Len(payload))
        /\ (payload = Love /\ enc.useGrave /\ enc.eol = <<LF>> /\ enc.name = PpTxt
                /\ enc.permit = <<54, 52, 52>>)
             => encOut = LoveText

C15_Witness ==
    /\ EncCalled /\ drv.done
    /\ Len(payload) = 90
    /\ enc.eol = <<CR, LF>>
    /\ Len(encOut) > 140

(* C16: a call of the encoder with atEOF false consumes whole groups of 45  *)
(* bytes only, writes (after the header, on the first call) one 'M' line    *)
(* for each and nothing else, and returns ErrShortSrc, with fewer than 45   *)
(* bytes left, or ErrShortDst                                               *)
C16_NoTrailerBeforeEOF ==
    (EncCalled /\ ~drv.atEOF) =>
        LET e == drv.pre
            el == Len(e.eol)
            hdr == IF e.state = uuStart /\ Len(HeaderOf(e)) <= drv.dstCap
                   THEN HeaderOf(e) ELSE <<>>
            k == drv.res.nSrc \div 45
            body == From(drv.res.out, Len(hdr))
        IN  /\ drv.res.err \in {"ErrShortSrc", "ErrShortDst"}
            /\ drv.res.nSrc % 45 = 0
            /\ drv.res.err = "ErrShortSrc" => Len(drv.src) - drv.res.nSrc < 45
            /\ IsPrefix(hdr, drv.res.out)
            /\ Len(body) = k * (61 + el)
            /\ \A i \in 0..(k - 1) :
                  /\ body[i * (61 + el) + 1] = 77
                  /\ Slice(body, i * (61 + el) + 61, (i + 1) * (61 + el)) = e.eol

C16_Witness ==
    /\ EncCalled /\ ~drv.atEOF
    /\ Len(drv.src) = 46
    /\ drv.res.nSrc = 45
    /\ drv.res.err = "ErrShortSrc"

(* C17: the header line is made of the values configured: permission 644    *)
(* and name "filename" unless the options of NewEncode give the name        *)
(* (first) and the permission (second); ResetAll(permit, name) sets both    *)
(* and the state to start, and from then on the encoder returns, call for   *)
(* call, what an encoder newly made with these values returns               *)
C17_HeaderConfig ==
    /\ [](phase = "call" /\ hist.resets = 0 =>
            /\ enc.name = (IF Len(parts.option) > 0 THEN parts.option[1]
                           ELSE <<102, 105, 108, 101, 110, 97, 109, 101>>)
            /\ enc.permit = (IF Len(parts.option) > 1 THEN parts.option[2]
                             ELSE <<54, 52, 52>>))
    /\ [](enc = hist.fresh)
    /\ [](EncCalled =>
            /\ drv.res = drv.asFresh
            /\ (drv.pre.state = uuStart /\ drv.res.nDst > 0)
                 => IsPrefix(HeaderOf(drv.pre), drv.res.out))
    /\ [][EncResetAll =>
            (enc'.permit = P777 /\ enc'.name = Pp688 /\ enc'.state = uuStart)]_vars

C17_Witness ==
    /\ EncCalled /\ drv.done
    /\ hist.resets = 1
    /\ parts.option = <<PpTxt>>
    /\ payload = Love
    /\ SubSeq(encOut, 1, 17) = HeaderOf([permit |-> P777, name |-> Pp688, eol |-> <<LF>>])

\* the offset in the input at which the first section ends
SectionEnd == Len(parts.pre) + Len(parts.head) + Len(parts.body)

(* C18: a single-section decoder decodes the first section only: once the   *)
(* trailer is found the state is uuEnd and stays so, every call copies as   *)
(* much of its source as the destination holds, verbatim (ErrShortDst when  *)
(* some is left), and the whole output is the lines before the header, the  *)
(* payload, and the bytes consumed after the section, a later section       *)
(* included                                                                 *)
C18_PassThroughAfterEnd ==
    /\ (DecCalled /\ drv.pre.state = uuEnd) =>
          LET n == Min(drv.dstCap, Len(drv.src)) IN
          /\ drv.res.nDst = n /\ drv.res.nSrc = n
          /\ drv.res.out = SubSeq(drv.src, 1, n)
          /\ drv.res.err = (IF Len(drv.src) > drv.dstCap THEN "ErrShortDst" ELSE "nil")
          /\ d.state = uuEnd
    /\ (DecCalled /\ parts.ok /\ d.state = uuEnd) =>
          /\ drv.pos >= SectionEnd
          /\ drvOut = parts.pre \o parts.payload \o Slice(input, SectionEnd, drv.pos)

C18_Witness ==
    /\ DecCalled /\ drv.pre.state = uuEnd
    /\ parts.rest = FileHeader \o CatLine \o Trailer
    /\ drv.res.err = "ErrShortDst"
    /\ drv.res.nDst = 4
    /\ drv.pos > SectionEnd + Len(FileHeader)

\* the header line of the input without its end of line
HeadLine == StripCR(SubSeq(parts.head, 1, Len(parts.head) - 1))

\* the first token after "begin " and what follows the space after it
FirstToken == SubSeq(HeadLine, 7, NextSep(HeadLine, 6, SP))
AfterFirstToken == From(HeadLine, Min(Len(HeadLine), 6 + Len(FirstToken) + 1))

\* t is a non-negative integer written in digits
NonNegInt(t) == t /= <<>> /\ \A i \in 1..Len(t) : t[i] \in 48..57

(* C19: once the header line is matched, Permission is the first token      *)
(* after "begin" if that is a non-negative integer (and is not recorded     *)
(* otherwise), and Filename is all that follows that token on the line      *)
C19_HeaderFields ==
    (DecCalled /\ d.state /= uuStart) =>
        /\ d.Permission = (IF NonNegInt(FirstToken) THEN FirstToken ELSE <<>>)
        /\ d.Filename = AfterFirstToken

(* C20: after any calls, ended or given up, Reset puts a single-section    *)
(* decoder in uuStart with empty Filename and Permission, and on the next   *)
(* input it returns, call for call, the counts, error, output and metadata  *)
(* of a decoder newly made                                                  *)
C20_ResetAsFresh ==
    /\ (drv.pc = "none" /\ hist.resets > 0) =>
          (d.state = uuStart /\ d.Filename = <<>> /\ d.Permission = <<>>)
    /\ d = hist.fresh
    /\ DecCalled => drv.res = drv.asFresh

C20_Witness ==
    /\ DecCalled /\ hist.resets = 1
    /\ parts.head = SpacedHeader
    /\ d.state = uuEnd
    /\ d.Filename = <<109, 121>>
    /\ drvOut = Cat

(* C21: while the header is sought, a window that is not the last one and   *)
(* holds no '\n' makes Transform ask for more source: ErrShortSrc with no    *)
(* byte consumed, never ErrBadUUDec or ErrBadLen                             *)
C21_PartialLineNeedsMore ==
    (DecCalled /\ drv.pre.state = uuStart /\ ~drv.atEOF
        /\ drv.src /= <<>> /\ IndexLF(drv.src, 0) < 0)
    => (drv.res.err = "ErrShortSrc" /\ drv.res.nSrc = 0 /\ drv.res.nDst = 0)

-----------------------------------------------------------------------------
(* Properties of uuutil.Parse (SpecParse) *)

(* C22: Parse called with a context that is already cancelled returns an    *)
(* error that is not nil, however its goroutines are scheduled              *)
C22_CancelledCtxError ==
    (cncl.ctx = "cancelled" /\ cncl.pc = "returned") => cncl.ret /= "nil"

(* C23: Parse blocks only until the decoding finishes or fails: with a      *)
(* context that is never cancelled, whatever the input, once the driver     *)
(* goroutine has ended (io.Copy has returned and Close was called) the      *)
(* consumer goroutine ends and Parse returns                                *)
C23_ParseReturns ==
    (cncl.ctx = "background" /\ hist.closeCalls > 0) ~> (cncl.pc = "returned")

-----------------------------------------------------------------------------
(* Properties of the header search and of the end of input *)

\* line (without its '\n') has the form "begin <token> <token...>"
IsHeaderPattern(line) ==
    /\ Len(line) > 0
    /\ LET as == Split(StripCR(line), SP)
       IN  /\ Len(as) >= 3
           /\ as[1] = uuBeginMarker
           /\ \A i \in 2..Len(as) : as[i] /= <<>>

(* C24: while the header is sought, a complete line that is not of the form *)
(* "begin <token> <token...>" ("begin" alone, "beginning of message") does  *)
(* not start a section: it is copied to the output as it is, and with no    *)
(* other complete line in the window the decoder stays in uuStart           *)
C24_HeaderPattern ==
    (DecCalled /\ drv.pre.state = uuStart) =>
        LET m == IndexLF(drv.src, 0) IN
        (m >= 0 /\ ~IsHeaderPattern(SubSeq(drv.src, 1, m)) /\ m + 1 <= drv.dstCap) =>
            /\ IsPrefix(SubSeq(drv.src, 1, m + 1), drv.res.out)
            /\ IndexLF(drv.src, m + 1) < 0 => d.state = uuStart

(* C25: a call of Decode.Transform with an empty source window, the end of  *)
(* the input, returns nil exactly when the state is uuEnd, or uuStart for a *)
(* decoder made by NewMultiDecode; in every other state (no header found by *)
(* a single-section decoder, a body without its trailer) it returns         *)
(* ErrBadUUDec; nothing is written and the decoder is left as it was        *)
C25_EmptyWindowAtEnd ==
    [][(drv.pc = "reader" /\ rd.next = "call" /\ rd.win = <<>> /\ rd' /= rd) =>
          /\ rd'.next = "done"
          /\ ReadAllErr(rd') = (IF d.state = uuEnd \/ (d.multi /\ d.state = uuStart)
                                THEN "nil" ELSE "ErrBadUUDec")
          /\ d' = d /\ drvOut' = drvOut /\ pipes' = pipes]_vars

C25_Witness ==
    /\ DrvDone /\ rd.win = <<>> /\ rd.pos = Len(input)
    /\ d.multi /\ d.state = uuBody
    /\ DrvErr = "ErrBadUUDec"
    /\ cons.got = <<Cat>>

-----------------------------------------------------------------------------
(* Properties of the multi-section decoder, continued *)

(* C26: at most one section is open for writing at a time: the write side   *)
(* of every pipe but the newest is closed; the handle of a section is       *)
(* published only when the write sides of all sections before it are        *)
(* closed; and the driver leaves a Write only when the consumer has read    *)
(* all its bytes or closed the handle, or cancel has been called            *)
C26_Backpressure ==
    /\ [](d.multi => \A i \in 1..(Len(pipes) - 1) : pipes[i].werr /= "nil")
    /\ [][Len(hist.pubs') > Len(hist.pubs) =>
            /\ hist.pubs' = Append(hist.pubs, Len(pipes))
            /\ \A i \in 1..(Len(pipes) - 1) : pipes[i].werr /= "nil"]_vars
    /\ [][(drv.pc = "write" /\ drv'.pc /= "write") =>
            (drv.wbuf = <<>> \/ pipes[d.pipe].rerr /= "nil" \/ cncl.closed)]_vars

C26_Witness ==
    /\ d.multi /\ ~cncl.closed
    /\ Len(hist.pubs) = 2
    /\ pipes[1].werr = "EOF" /\ pipes[2] = NewPipe
    /\ drv.pc = "write" /\ Len(drv.wbuf) = 6
    /\ Len(cons.got[2]) = ReadBuf

-----------------------------------------------------------------------------
(* Properties of uuBodyDec.Transform (SpecBody) *)

\* the last call of uuBodyDec.Transform
BodyCalled == drv.pc = "body"

(* C27: a well-formed body cut into windows in any way, every call with an  *)
(* ample destination: the calls return nil or ErrShortSrc until the one     *)
(* that finds the trailer, what is left of the body after each call decodes *)
(* to what is missing of the output of one call over the whole body, and at *)
(* the end every byte is consumed and the output is the payload             *)
C27_BodyResumption ==
    (BodyCalled /\ parts.ok /\ drv.ample) =>
        LET whole == uuBodyDecTransform(AmpleDst, input, TRUE)
            left == uuBodyDecTransform(AmpleDst, From(input, drv.pos), TRUE)
        IN  /\ whole.err = "errFoundEOF" /\ whole.nSrc = Len(input)
            /\ whole.out = parts.payload
            /\ drv.res.err \in {"nil", "ErrShortSrc", "errFoundEOF"}
            /\ drv.res.nSrc <= Len(drv.src)
            /\ drv.res.err = "nil" => drv.res.nSrc = Len(drv.src)
            /\ drv.atEOF => drv.res.err = "errFoundEOF"
            /\ IF drv.res.err = "errFoundEOF"
               THEN drv.pos = Len(input) /\ drvOut = whole.out
               ELSE left.err = "errFoundEOF" /\ drvOut \o left.out = whole.out

C27_Witness ==
    /\ BodyCalled /\ parts.ok /\ drv.ample
    /\ drv.res.err = "errFoundEOF"
    /\ drv.src = Trailer /\ ~drv.atEOF
    /\ Len(drvOut) = 46

\* the window of the last call starts with a complete padding line; the
\* bytes after that line
TrailerSeen ==
    BodyCalled /\ drv.src /= <<>> /\ drv.src[1] = uuPadding /\ IndexLF(drv.src, 0) >= 0
AfterPadding == From(drv.src, IndexLF(drv.src, 0) + 1)

(* C28: a line whose length byte is '`' starts the trailer. With the next   *)
(* line complete: "end", a '\r' before its '\n' apart, ends the section,    *)
(* both lines consumed; anything else gives ErrBadUUDec. With the next line *)
(* incomplete: ErrShortSrc and nothing consumed, but for "end" without      *)
(* '\n' at atEOF, which ends the section                                    *)
C28_TrailerRule ==
    TrailerSeen =>
        LET m2 == IndexLF(AfterPadding, 0)
            line == SubSeq(AfterPadding, 1, m2)
            text == IF m2 > 0 /\ line[m2] = CR THEN SubSeq(line, 1, m2 - 1) ELSE line
        IN  IF m2 >= 0 THEN
                IF text = uuEndMarker
                THEN /\ drv.res.err = "errFoundEOF"
                     /\ drv.res.nSrc = Len(drv.src) - Len(AfterPadding) + m2 + 1
                     /\ drv.res.out = <<>>
                ELSE drv.res.err = "ErrBadUUDec"
            ELSE IF drv.atEOF /\ AfterPadding = uuEndMarker
            THEN drv.res.err = "errFoundEOF" /\ drv.res.nSrc = Len(drv.src)
            ELSE drv.res.err = "ErrShortSrc" /\ drv.res.nSrc = 0

\* the first line of the window of the last call, when it is complete and
\* its length byte is within 0x20..0x5f: its declared count, the number of
\* its characters and what they decode to
DataLineSeen ==
    /\ BodyCalled /\ IndexLF(drv.src, 0) > 0
    /\ drv.src[1] >= uuOffset /\ drv.src[1] < uuPadding
LineChars == Tail(StripCR(SubSeq(drv.src, 1, IndexLF(drv.src, 0))))
LineCount == drv.src[1] - uuOffset

RECURSIVE HeadersOf(_)
HeadersOf(ps) ==
    IF ps = <<>> THEN <<>>
    ELSE (IF Head(ps).kind = "junk" THEN <<>>
          ELSE LET text == PartText(Head(ps), enc)
               IN  <<StripCR(SubSeq(text, 1, IndexLF(text, 0)))>>)
         \o HeadersOf(Tail(ps))

\* the file name and the permission written on header line h
NameOn(h) == LET as == Split(h, SP) IN IF Len(as) > 2 THEN as[3] ELSE <<>>
PermOn(h) ==
    LET as == Split(h, SP) IN IF Len(as) > 1 /\ NonNegInt(as[2]) THEN as[2] ELSE <<>>

(* C30: in multi mode, when the handle of section k is published, Filename  *)
(* and Permission are those written on the header line of section k, empty  *)
(* when that line has none (the values of an earlier section do not stay);  *)
(* a consumer that has received handle k and not yet read from it sees the  *)
(* values of section k                                                      *)
C30_OwnMetadata ==
    d.multi =>
        /\ drv.pc = "publish" =>
              /\ d.Filename = NameOn(HeadersOf(parts)[d.pipe])
              /\ d.Permission = PermOn(HeadersOf(parts)[d.pipe])
        /\ (cons.pc = "have" /\ cons.got[cons.cur] = <<>>
                /\ cons.ends[cons.cur] = "open") =>
              /\ d.Filename = NameOn(HeadersOf(parts)[cons.cur])
              /\ d.Permission = PermOn(HeadersOf(parts)[cons.cur])

-----------------------------------------------------------------------------
(* The header line of the encoder (SpecEnc) *)

\* the number of places in out at which the marker "begin" stands
BeginCount(out) ==
    Cardinality({ i \in 1..(Len(out) - Len(uuBeginMarker) + 1) :
                     SubSeq(out, i, i + Len(uuBeginMarker) - 1) = uuBeginMarker })

(* C31: between two Resets the encoder writes the header line once, at the   *)
(* start of its output. A call in state start either writes nothing, returns *)
(* 0, 0 and ErrShortDst and leaves the state at start, or writes the whole   *)
(* header first, counts it in nDst and leaves the start state, whatever the  *)
(* body returns; a call in a later state, a retry after ErrShortDst or       *)
(* ErrShortSrc included, writes no header; so the output since the last      *)
(* Reset is empty or begins with the header and holds it nowhere else        *)
C31_HeaderOnce ==
    EncCalled =>
        /\ drv.res.nDst = Len(drv.res.out)
        /\ drv.pre.state = uuStart =>
              \/ /\ drv.res.nDst = 0 /\ drv.res.nSrc = 0
                 /\ drv.res.err = "ErrShortDst"
                 /\ enc.state = uuStart
                 /\ Len(HeaderOf(drv.pre)) > drv.dstCap
              \/ /\ IsPrefix(HeaderOf(drv.pre), drv.res.out)
                 /\ BeginCount(drv.res.out) = 1
                 /\ enc.state /= uuStart
        /\ drv.pre.state /= uuStart =>
              /\ BeginCount(drv.res.out) = 0
              /\ enc.state = drv.pre.state
        /\ IF enc.state = uuStart THEN encOut = <<>>
           ELSE IsPrefix(HeaderOf(enc), encOut) /\ BeginCount(encOut) = 1

\* the retry that ends the run of an empty payload: the header was written by
\* an earlier call, which returned ErrShortDst or ErrShortSrc
C31_Witness ==
    /\ EncCalled /\ drv.done
    /\ drv.pre.state = uuBody
    /\ payload = <<>>
    /\ drv.dstCap = 20
    /\ encOut = HeaderOf(enc) \o <<uuOffset>> \o EndLine(enc.eol)

(* C32: every call of uuBodyDec.Transform returns counts within its two     *)
(* windows, 0 <= nSrc <= len(src) and 0 <= nDst <= len(dst), having written *)
(* nDst bytes, and no call faults with an index out of range: not for an    *)
(* empty line inside a body, not for an empty line after the padding line,  *)
(* not for a destination that holds one decoded line but not the next       *)
C32_WithinWindows ==
    BodyCalled =>
        /\ drv.res.err /= "panic"
        /\ drv.res.nSrc \in 0..Len(drv.src)
        /\ drv.res.nDst \in 0..drv.dstCap
        /\ Len(drv.res.out) = drv.res.nDst

-----------------------------------------------------------------------------
(* SpecQuantum: miniEncode called on one group of up to three bytes, the way *)
(* Test_miniEncode and lineEncode call it, and miniConvert called on the     *)
(* four characters it wrote or on four characters of a body line.            *)

\* bytes of the groups: every bit alone, the masks of miniEncode, 'o', "\r\n"
QuantumBytes == {0, 1, 2, 3, 4, 8, 10, 13, 15, 16, 32, 63, 64, 111, 128, 192, 252, 255}

\* characters of a body line given to miniConvert: the ends of the range
\* 0x20..0x60, the bytes next to it, and characters between
QuantumChars == {31, 32, 33, 35, 48, 63, 64, 72, 80, 95, 96, 97}

\* a group of 3 - n bytes for miniEncode with n padding bytes, or four
\* characters for miniConvert
InitQuantum ==
    /\ phase = "quantum"
    /\ \/ /\ \E n \in 0..2 : payload \in [1..(3 - n) -> QuantumBytes]
          /\ \E g \in BOOLEAN : enc = NewEncode(g, <<LF>>, <<>>)
          /\ input = <<>>
       \/ /\ payload = <<>>
          /\ enc = NewEncode(TRUE, <<LF>>, <<>>)
          /\ input \in [1..4 -> QuantumChars]
    /\ encRd = NewReader
    /\ encOut = <<>>
    /\ parts = <<>>
    /\ d = NewDecode
    /\ rd = NewReader
    /\ drvOut = <<>>
    /\ drv = NoCall
    /\ pipes = <<>>
    /\ chClosed = FALSE
    /\ cons = NoCons
    /\ cncl = NoCncl
    /\ hist = NoHist

\* miniEncode(out[:], in, n, grave); out is then given to miniConvert
MiniEncodeCall ==
    /\ phase = "quantum"
    /\ drv.pc = "none"
    /\ payload /= <<>>
    /\ encOut' = miniEncode(payload, 0, 3 - Len(payload), enc.useGrave)
    /\ input' = encOut'
    /\ drv' = [drv EXCEPT !.pc = "miniEncode"]
    /\ UNCHANGED <<payload, enc, encRd, phase, parts, d, rd, drvOut, pipes,
                   chClosed, cons, cncl, hist>>

\* miniConvert(out, in) with the four characters in
MiniConvertCall ==
    /\ phase = "quantum"
    /\ drv.pc \in {"none", "miniEncode"}
    /\ Len(input) = 4
    /\ drvOut' = miniConvert(input)
    /\ drv' = [drv EXCEPT !.pc = "miniConvert"]
    /\ UNCHANGED <<payload, enc, encRd, encOut, phase, input, parts, d, rd, pipes,
                   chClosed, cons, cncl, hist>>

SpecQuantum == InitQuantum /\ [][MiniEncodeCall \/ MiniConvertCall]_vars

-----------------------------------------------------------------------------
(* Properties of the quantum codec (SpecQuantum) *)

\* the group given to miniEncode with its missing bytes taken as zero
GroupOf(p) == [i \in 1..3 |-> IF i <= Len(p) THEN p[i] ELSE 0]

\* the four 6-bit values of a group of three bytes
SixBits(g) ==
    <<g[1] \div 4, (g[1] % 4) * 16 + g[2] \div 16,
      (g[2] % 16) * 4 + g[3] \div 64, g[3] % 64>>

\* the 6-bit value of a character: the character less 0x20 as a byte, grave
\* as zero, modulo 64
SixBitOf(c) == IF c = uuPadding THEN 0 ELSE ((c - uuOffset + 256) % 256) % 64

(* C33: miniEncode of a group of three bytes with 0..2 of them missing      *)
(* (taken as zero, never read) gives four characters, each a 6-bit value    *)
(* of the group plus 0x20, with 0x60 in place of 0x20 exactly when grave is *)
(* on; miniConvert of four characters with the 6-bit values c0..c3 gives    *)
(* (c0<<2)|(c1>>4), (c1<<4)|(c2>>2), (c2<<6)|c3 as bytes; and miniConvert   *)
(* of what miniEncode wrote gives the three bytes of the group              *)
C33_QuantumCodec ==
    /\ (phase = "quantum" /\ encOut /= <<>>) =>
          /\ Len(encOut) = 4
          /\ \A i \in 1..4 :
                LET v == SixBits(GroupOf(payload))[i]
                IN  encOut[i] = IF v = 0 /\ enc.useGrave THEN uuPadding
                                ELSE v + uuOffset
    /\ (phase = "quantum" /\ drv.pc = "miniConvert") =>
          LET c == [i \in 1..4 |-> SixBitOf(input[i])]
          IN  /\ drvOut = <<(c[1] * 4 + c[2] \div 16) % 256,
                            (c[2] * 16 + c[3] \div 4) % 256,
                            (c[3] * 64 + c[4]) % 256>>
              /\ encOut /= <<>> => drvOut = GroupOf(payload)

\* "\r\n" with one byte missing and grave on is written as "#0H`"
\* (Test_miniEncode) and read back as '\r', '\n' and a zero byte
C33_Witness ==
    /\ phase = "quantum" /\ drv.pc = "miniConvert"
    /\ payload = <<13, 10>>
    /\ enc.useGrave
    /\ encOut = <<35, 48, 72, uuPadding>>
    /\ drvOut = <<13, 10, 0>>

====
